---- MODULE Spec2Model ----
(***************************************************************************)
(* Model of go-astiencoder's libav rate enforcer (RateEnforcer: Switch,    *)
(* HandleFrame, the serial chan task, tickFunc, distribute, current and    *)
(* the two fillers), of the demuxer looper (handlePkt, looping, reset), of *)
(* the demuxer rate emulator (start, stop, handlePkt, eof) with the read   *)
(* loop of Demuxer.Start, and of the event logger with message merging.    *)
(***************************************************************************)
EXTENDS Integers, Sequences, FiniteSets, TLC

(***************************************************************************)
(* Bounds of the model                                                     *)
(***************************************************************************)
\* number of HandleFrame calls explored
MaxFrames == 3
\* number of ticks explored
MaxTicks == 3
\* number of Switch calls explored
MaxSwitches == 2
\* number of failing Frame.Ref calls explored
MaxRefErrors == 1

(***************************************************************************)
(* Configuration of the rate enforcer                                      *)
(***************************************************************************)
\* outputCtx.TimeBase = 1/OutputTimeBaseDen, outputCtx.FrameRate = OutputFrameRate/1
OutputTimeBaseDen == 50
OutputFrameRate == 25

Nil == "nil"
Nodes == {"X", "Y"}

\* time base denominator of the descriptor each source node sends with its frames:
\* X is a 10 fps source, slower than the output, Y a 100 fps source, faster
DescriptorTimeBaseDen(node) == IF node = "X" THEN 10 ELSE 100

RECURSIVE GCD(_, _)
GCD(a, b) == IF b = 0 THEN a ELSE GCD(b, a % b)

\* astiav.RescaleQ(a, 1/bDen, 1/cDen) for a >= 0: a * cDen / bDen rounded to the
\* nearest integer, halves away from zero (AV_ROUND_NEAR_INF); the fraction
\* cDen / bDen is reduced first, which keeps the intermediate product small
RescaleQ(a, bDen, cDen) ==
    LET g == GCD(bDen, cDen)
        b == bDen \div g
        c == cDen \div g
    IN (2 * a * c + b) \div (2 * b)

\* int64(1 / (TimeBase.ToDouble() * FrameRate.ToDouble()))
SlotWidth == OutputTimeBaseDen \div OutputFrameRate

(***************************************************************************)
(* Values                                                                  *)
(***************************************************************************)
\* a frame pointer is a positive pool identity; 0 is the nil pointer
NoFrame == 0
\* the frame the static frame filler allocates outside the pool
StaticFrame == -1

\* rateEnforcerItem{f, n}; pts is the PTS of the frame f points to
NoItem == [f |-> NoFrame, pts |-> 0, n |-> Nil]
newRateEnforcerItem(f, pts, node) == [f |-> f, pts |-> pts, n |-> node]

\* *rateEnforcerSlot; nil = TRUE is the nil pointer. anchored is not a field of the
\* source: it records that the slot was built by newRateEnforcerSlot, at the PTS
\* of an incoming frame, and not by next()
NilSlot ==
    [nil |-> TRUE, i |-> NoItem, n |-> Nil, ptsMin |-> 0, ptsMax |-> 0, anchored |-> FALSE]

\* a frame handed to framePool.put, and why
Put(f, why) == [f |-> f, why |-> why]

VARIABLES
    \* RateEnforcer fields
    n,                \* r.n, the desired node
    slots,            \* r.slots
    buf,              \* r.buf
    adaptSlotsToIncomingFrames,
    slotsCount,
    filler,           \* "previous" or "frame": which RateEnforcerFiller r.f is
    fillerF,          \* previousRateEnforcerFiller.f / frameRateEnforcerFiller.f
    fillerPts,        \* PTS of the frame the filler holds
    fillerN,          \* previousRateEnforcerFiller.n
    previousNode,     \* previousNode of the tick goroutine
    statFilledRate,   \* number of Add(1) on r.statFilledRate
    \* frame pool
    allocated,        \* number of frames obtained from the pool so far
    live,             \* frames obtained from the pool and not put back
    doublePut,        \* a frame has been put that the pool did not lend
    errors,           \* number of error events emitted (emitError)
    refBudget,        \* number of Frame.Ref calls that may still fail in this run
    \* observation of the run
    sent,             \* per node: number of frames it has sent; its next frame has this PTS
    switches,         \* number of Switch calls so far
    ticks,            \* number of ticks run so far
    warmTicks,        \* number of ticks run past the warmup test
    nodeSourced,      \* number of ticks that dispatched the item of slot 0
    switchedOut,      \* the payloads of the SwitchedOut events emitted, in order
    switchedInAt,     \* per node: ticks when SwitchedIn(node) was first emitted, -1 if never
    sinceAccept,      \* ticks run since the first frame of the desired node was
                      \* accepted after the last Switch, -1 if none yet
    last              \* what the last operation did

reVars == <<n, slots, buf, adaptSlotsToIncomingFrames, slotsCount, filler,
            fillerF, fillerPts, fillerN, previousNode, statFilledRate,
            allocated, live, doublePut, errors, refBudget, sent, switches, ticks, warmTicks,
            nodeSourced, switchedOut, switchedInAt, sinceAccept, last>>

VARIABLES
    \* demuxer: the input, the position of the read loop, the looper, the durationers
    file,             \* the packets of the input, in the order ReadFrame returns them
    timeBaseDen,      \* per stream index, demuxerStream.ctx.TimeBase = 1/timeBaseDen
    durationDen,      \* the unit of the time.Duration values is 1/durationDen second
    restarts,         \* number of times Start was called again after its loop ended
    pos,              \* index in file of the packet the next ReadFrame returns
    loops,            \* number of times the looper has looped
    lss,              \* demuxerLooper.ss: per stream index, the demuxerLooperStream
    pd,               \* per stream index, demuxerStream.pd
    emitted,          \* per stream index, the DTS of the last packet handed on
    stopped,          \* the read loop of Start has ended
    step              \* what the last step of the read loop did

lpVars == <<file, timeBaseDen, durationDen, restarts, pos, loops, lss, pd, emitted,
            stopped, step>>

VARIABLES
    \* demuxer with rate emulation: the goroutine of Start, the per-stream rate
    \* emulators with their goroutines, the packet pool, the wall clock
    now,              \* time.Now(), in nanoseconds
    ctxDone,          \* the context of the demuxer is cancelled
    emulateRate,      \* Demuxer.emulateRate
    bufferDuration,   \* demuxerRateEmulator.bufferDuration
    pc,               \* where the goroutine of Start is: read, sleep, wait, done
    sleepUntil,       \* when the sleep of handlePkt ends
    pktsRead,         \* per stream index, number of packets read
    lastAt,           \* per stream index, demuxerRateEmulator.lastAt (0: zero time)
    cfs,              \* per stream index, the functions in demuxerRateEmulator.c
    eps,              \* per stream index, demuxerRateEmulator.ps
    est,              \* per stream index, where the emulator's goroutine is
    cancelled,        \* per stream index, stop has cancelled demuxerRateEmulator.ctx
    taken,            \* packets the emulators got from the pool and have not put back
    delivered,       \* per stream index, the packets dispatched, in order
    pktRefBudget,     \* number of Packet.Ref failures the run may still have
    handled                \* what the last call of handlePkt did

emVars == <<now, ctxDone, emulateRate, bufferDuration, pc, sleepUntil, pktsRead, lastAt,
            cfs, eps, est, cancelled, taken, delivered, pktRefBudget, handled>>

VARIABLES
    \* event logger with message merging, and the logger it writes to
    merged,           \* per pattern being merged, its count and whether a tick saw it
    msgs,             \* mockedLogger.msgs: per line written, the number of times
    closed,           \* Close has returned
    calls,            \* number of calls of the logging functions
    logTicks,         \* number of times the background task has woken
    purged,           \* number of patterns purged so far
    logged            \* what the last operation of the event logger was

lgVars == <<merged, msgs, closed, calls, logTicks, purged, logged>>

VARIABLES
    \* demuxer: what readFrame does when ReadFrame fails
    loop,                   \* Demuxer.loop is not 0
    readFrameErrorHandler,  \* Demuxer.readFrameErrorHandler: "nil" or "set"
    errorEvents,            \* the messages of the error events emitted, in order
    rf                      \* what the last call of readFrame on a failure did

rdVars == <<loop, readFrameErrorHandler, errorEvents, rf>>

VARIABLE
    \* the rate enforcer of src/libav/rate_enforcer.go
    panicked                \* the goroutine of startTick has panicked

vars == <<reVars, lpVars, emVars, lgVars, rdVars, panicked>>

\* what an operation did: the item a tick dispatched (NoItem for none), whether it
\* filled, the events emitted, the frames put, whether the tail slot was replaced,
\* and previousNode before the operation
Quiet(op) ==
    [op |-> op, warm |-> FALSE, disp |-> NoItem, filled |-> FALSE,
     evIn |-> Nil, evOut |-> Nil, puts |-> <<>>, replaced |-> FALSE,
     prevNode |-> Nil]

(***************************************************************************)
(* Pure functions of the rate enforcer                                     *)
(***************************************************************************)
\* RateEnforcer.newRateEnforcerSlot: a slot for the desired node rn anchored at pts
newRateEnforcerSlot(rn, pts) ==
    [nil |-> FALSE, i |-> NoItem, n |-> rn, ptsMax |-> pts + SlotWidth, ptsMin |-> pts,
     anchored |-> TRUE]

\* next with the slot starting where the previous one starts
next_SameStart(s) ==
    [nil |-> FALSE, i |-> NoItem, n |-> s.n,
     ptsMin |-> s.ptsMin, ptsMax |-> s.ptsMax - s.ptsMin + s.ptsMax, anchored |-> FALSE]

\* rateEnforcerSlot.next
next(s) ==
    [nil |-> FALSE, i |-> NoItem, n |-> s.n,
     ptsMin |-> s.ptsMax, ptsMax |-> s.ptsMax - s.ptsMin + s.ptsMax, anchored |-> FALSE]

\* append(b[:idx], b[idx+1:]...)
RemoveAt(b, idx) == SubSeq(b, 1, idx - 1) \o SubSeq(b, idx + 1, Len(b))

\* the "useful nodes" with every node taken as useful
usefulNodes_EveryNode(ss) == Nodes

\* the "useful nodes" of distribute: the nodes tagging a slot of the window
usefulNodes(ss) == {ss[k].n : k \in {j \in DOMAIN ss : ~ss[j].nil /\ ss[j].n # Nil}}

\* the inner loop with the last frame in range kept and the earlier ones put
RECURSIVE scanBuf_LastWins(_, _, _, _, _)
scanBuf_LastWins(s, b, idx, ns, puts) ==
    IF idx > Len(b) THEN [s |-> s, buf |-> b, puts |-> puts]
    ELSE LET it == b[idx] IN
        IF it.n # s.n
        THEN IF it.n \notin ns
             THEN scanBuf_LastWins(s, RemoveAt(b, idx), idx, ns,
                                   Append(puts, Put(it.f, "useless")))
             ELSE scanBuf_LastWins(s, b, idx + 1, ns, puts)
        ELSE IF s.ptsMin <= it.pts /\ s.ptsMax > it.pts
             THEN IF s.i.f = NoFrame
                  THEN scanBuf_LastWins([s EXCEPT !.i = it], RemoveAt(b, idx), idx, ns, puts)
                  ELSE scanBuf_LastWins([s EXCEPT !.i = it], RemoveAt(b, idx), idx, ns,
                                        Append(puts, Put(s.i.f, "duplicate")))
             ELSE IF s.ptsMin > it.pts
                  THEN scanBuf_LastWins(s, RemoveAt(b, idx), idx, ns,
                                        Append(puts, Put(it.f, "stale")))
                  ELSE scanBuf_LastWins(s, b, idx + 1, ns, puts)

\* the inner loop with the assigned frame left in the buffer
RECURSIVE scanBuf_AssignedKept(_, _, _, _, _)
scanBuf_AssignedKept(s, b, idx, ns, puts) ==
    IF idx > Len(b) THEN [s |-> s, buf |-> b, puts |-> puts]
    ELSE LET it == b[idx] IN
        IF it.n # s.n
        THEN IF it.n \notin ns
             THEN scanBuf_AssignedKept(s, RemoveAt(b, idx), idx, ns,
                                       Append(puts, Put(it.f, "useless")))
             ELSE scanBuf_AssignedKept(s, b, idx + 1, ns, puts)
        ELSE IF s.ptsMin <= it.pts /\ s.ptsMax > it.pts
             THEN IF s.i.f = NoFrame
                  THEN scanBuf_AssignedKept([s EXCEPT !.i = it], b, idx + 1, ns, puts)
                  ELSE scanBuf_AssignedKept(s, RemoveAt(b, idx), idx, ns,
                                            Append(puts, Put(it.f, "duplicate")))
             ELSE IF s.ptsMin > it.pts
                  THEN scanBuf_AssignedKept(s, RemoveAt(b, idx), idx, ns,
                                            Append(puts, Put(it.f, "stale")))
                  ELSE scanBuf_AssignedKept(s, b, idx + 1, ns, puts)

\* the inner loop with the frames older than the slot left in the buffer
RECURSIVE scanBuf_StaleKept(_, _, _, _, _)
scanBuf_StaleKept(s, b, idx, ns, puts) ==
    IF idx > Len(b) THEN [s |-> s, buf |-> b, puts |-> puts]
    ELSE LET it == b[idx] IN
        IF it.n # s.n
        THEN IF it.n \notin ns
             THEN scanBuf_StaleKept(s, RemoveAt(b, idx), idx, ns,
                                    Append(puts, Put(it.f, "useless")))
             ELSE scanBuf_StaleKept(s, b, idx + 1, ns, puts)
        ELSE IF s.ptsMin <= it.pts /\ s.ptsMax > it.pts
             THEN IF s.i.f = NoFrame
                  THEN scanBuf_StaleKept([s EXCEPT !.i = it], RemoveAt(b, idx), idx, ns, puts)
                  ELSE scanBuf_StaleKept(s, RemoveAt(b, idx), idx, ns,
                                         Append(puts, Put(it.f, "duplicate")))
             ELSE scanBuf_StaleKept(s, b, idx + 1, ns, puts)

\* the inner loop of distribute for one slot s, from buffer position idx on
RECURSIVE scanBuf(_, _, _, _, _)
scanBuf(s, b, idx, ns, puts) ==
    IF idx > Len(b) THEN [s |-> s, buf |-> b, puts |-> puts]
    ELSE LET it == b[idx] IN
        IF it.n # s.n
        THEN IF it.n \notin ns
             THEN scanBuf(s, RemoveAt(b, idx), idx, ns, Append(puts, Put(it.f, "useless")))
             ELSE scanBuf(s, b, idx + 1, ns, puts)
        ELSE IF s.ptsMin <= it.pts /\ s.ptsMax > it.pts
             THEN IF s.i.f = NoFrame
                  THEN scanBuf([s EXCEPT !.i = it], RemoveAt(b, idx), idx, ns, puts)
                  ELSE scanBuf(s, RemoveAt(b, idx), idx, ns,
                               Append(puts, Put(it.f, "duplicate")))
             ELSE IF s.ptsMin > it.pts
                  THEN scanBuf(s, RemoveAt(b, idx), idx, ns, Append(puts, Put(it.f, "stale")))
                  ELSE scanBuf(s, b, idx + 1, ns, puts)

\* the outer loop of distribute, from slot k on
RECURSIVE distributeFrom(_, _, _, _, _)
distributeFrom(ss, b, k, ns, puts) ==
    IF k > Len(ss) THEN [slots |-> ss, buf |-> b, puts |-> puts]
    ELSE IF ss[k].nil \/ ss[k].i.f # NoFrame
         THEN distributeFrom(ss, b, k + 1, ns, puts)
         ELSE LET r == scanBuf(ss[k], b, 1, ns, puts)
              IN distributeFrom([ss EXCEPT ![k] = r.s], r.buf, k + 1, ns, r.puts)

\* RateEnforcer.distribute: the slots and the buffer after it, and the frames it put
distribute(ss, b) == distributeFrom(ss, b, 1, usefulNodes(ss), <<>>)

(***************************************************************************)
(* Frame pool                                                              *)
(***************************************************************************)
\* framePool.put of the frames of ps, in order, on the lent set lv
RECURSIVE putAll(_, _, _)
putAll(lv, dbl, ps) ==
    IF ps = <<>> THEN [live |-> lv, doublePut |-> dbl]
    ELSE putAll(lv \ {Head(ps).f}, dbl \/ Head(ps).f \notin lv, Tail(ps))

(***************************************************************************)
(* Initial state: NewRateEnforcer                                          *)
(***************************************************************************)
\* the values of RateEnforcerOptions.Delay explored
Delays == {0, 1, 2}

\* the slotsCount of NewRateEnforcer: int(math.Max(float64(o.Delay), 1))
newSlotsCount(delay) == IF delay > 1 THEN delay ELSE 1

REInit ==
    /\ n = Nil
    /\ slots = <<NilSlot>>
    /\ buf = <<>>
    /\ adaptSlotsToIncomingFrames \in BOOLEAN
    /\ slotsCount \in {newSlotsCount(delay) : delay \in Delays}
    /\ filler \in {"previous", "frame"}
    /\ fillerF = IF filler = "frame" THEN StaticFrame ELSE NoFrame
    /\ fillerPts = 0
    /\ fillerN = Nil
    /\ previousNode = Nil
    /\ statFilledRate = 0
    /\ allocated = 0
    /\ live = {}
    /\ doublePut = FALSE
    /\ errors = 0
    /\ refBudget \in {0, MaxRefErrors}
    /\ sent = [x \in Nodes |-> 0]
    /\ switches = 0
    /\ ticks = 0
    /\ warmTicks = 0
    /\ nodeSourced = 0
    /\ switchedOut = <<>>
    /\ switchedInAt = [x \in Nodes |-> -1]
    /\ sinceAccept = -1
    /\ last = Quiet("init")

(***************************************************************************)
(* RateEnforcer.Switch                                                     *)
(***************************************************************************)
\* a Switch to the node that is already desired changes nothing and is left out
Switch(node) ==
    /\ UNCHANGED <<lpVars, emVars, lgVars, rdVars, panicked>>
    /\ switches < MaxSwitches
    /\ node # n
    /\ switches' = switches + 1
    /\ n' = node
    /\ sinceAccept' = -1
    /\ last' = Quiet("switch")
    /\ UNCHANGED <<slots, buf, adaptSlotsToIncomingFrames, slotsCount, filler,
                   fillerF, fillerPts, fillerN, previousNode, statFilledRate,
                   allocated, live, doublePut, errors, refBudget, sent, ticks,
                   warmTicks, nodeSourced, switchedOut, switchedInAt>>

(***************************************************************************)
(* RateEnforcer.HandleFrame                                                *)
(*                                                                         *)
(* The intake (pool get, Ref, rescale of the PTS, r.c.Add) touches only    *)
(* the frame it creates, so it commutes with every other operation; the    *)
(* action is the intake followed by the task it adds, which runs under r.m *)
(***************************************************************************)
\* number of HandleFrame calls so far
framesSent == sent["X"] + sent["Y"]

\* c1 of the task: the tail is nil, or the desired node differs from the tail's
\* node and the frame comes from the desired node
TaskC1(l, rn, node) == l.nil \/ (rn # l.n /\ rn = node)

\* c2 of the task: the tail has the frame's node and ends before the frame
TaskC2(l, node, pts) == ~l.nil /\ l.n = node /\ l.ptsMax < pts

\* the replacement of the tail slot with the adapt option not looked at
TaskReplaces_AdaptAlways(l, rn, node, pts, adapt) ==
    TaskC1(l, rn, node) \/ TaskC2(l, node, pts)

\* whether the task replaces the tail slot
TaskReplaces(l, rn, node, pts, adapt) ==
    TaskC1(l, rn, node) \/ (TaskC2(l, node, pts) /\ adapt)

\* the node of the SwitchedIn event the task emits, Nil for none
TaskSwitchedIn(l, rn, node) == IF TaskC1(l, rn, node) THEN node ELSE Nil

\* the intake's Ref fails: an error event, nothing is added to the chan and the
\* frame obtained from the pool is not put back
HandleFrameRefError(node) ==
    /\ UNCHANGED <<lpVars, emVars, lgVars, rdVars, panicked>>
    /\ framesSent < MaxFrames
    /\ refBudget > 0
    /\ sent' = [sent EXCEPT ![node] = @ + 1]
    /\ allocated' = allocated + 1
    /\ live' = live \cup {allocated + 1}
    /\ errors' = errors + 1
    /\ refBudget' = refBudget - 1
    /\ last' = Quiet("intake")
    /\ UNCHANGED <<n, slots, buf, adaptSlotsToIncomingFrames, slotsCount, filler,
                   fillerF, fillerPts, fillerN, previousNode, statFilledRate,
                   doublePut, switches, ticks, warmTicks, nodeSourced, switchedOut,
                   switchedInAt, sinceAccept>>

\* refOk: whether the Ref of the item's frame succeeds in the task; a Ref may fail
\* while the failure budget of the run lasts
HandleFrame(node, refOk) ==
    /\ UNCHANGED <<lpVars, emVars, lgVars, rdVars, panicked>>
    /\ framesSent < MaxFrames
    /\ (refOk \/ refBudget > 0)
    /\ sent' = [sent EXCEPT ![node] = @ + 1]
    /\ LET f == allocated + 1
           fPts == RescaleQ(sent[node], DescriptorTimeBaseDen(node), OutputTimeBaseDen)
           l == slots[Len(slots)]
           rep == TaskReplaces(l, n, node, fPts, adaptSlotsToIncomingFrames)
           ev == TaskSwitchedIn(l, n, node)
           id == allocated + 2
           pool == putAll(live \cup {f, id}, doublePut, <<Put(f, "intake")>>)
       IN /\ slots' = IF rep
                      THEN [slots EXCEPT ![Len(slots)] = newRateEnforcerSlot(n, fPts)]
                      ELSE slots
          /\ switchedInAt' = IF ev # Nil /\ switchedInAt[ev] = -1
                             THEN [switchedInAt EXCEPT ![ev] = ticks]
                             ELSE switchedInAt
          /\ allocated' = id
          /\ live' = pool.live
          /\ doublePut' = pool.doublePut
          /\ IF refOk
             THEN /\ buf' = Append(buf, newRateEnforcerItem(id, fPts, node))
                  /\ sinceAccept' = IF sinceAccept = -1 /\ node = n THEN 0 ELSE sinceAccept
                  /\ UNCHANGED <<errors, refBudget>>
             ELSE /\ errors' = errors + 1
                  /\ refBudget' = refBudget - 1
                  /\ UNCHANGED <<buf, sinceAccept>>
          /\ last' = [Quiet("task") EXCEPT !.evIn = ev, !.replaced = rep,
                                           !.puts = <<Put(f, "intake")>>]
    /\ UNCHANGED <<n, adaptSlotsToIncomingFrames, slotsCount, filler, fillerF,
                   fillerPts, fillerN, previousNode, statFilledRate, switches, ticks,
                   warmTicks, nodeSourced, switchedOut>>

(***************************************************************************)
(* Fillers and RateEnforcer.current                                        *)
(***************************************************************************)
\* Fill returning its frame without a node, whatever the filler
Fill_NoNode(kind, fF, fPts, fN) == newRateEnforcerItem(fF, fPts, Nil)

\* RateEnforcerFiller.Fill: the frame and the node the filler returns
Fill(kind, fF, fPts, fN) ==
    IF kind = "previous" THEN newRateEnforcerItem(fF, fPts, fN)
    ELSE newRateEnforcerItem(fF, fPts, Nil)

\* current with the filler never asked: a tick without an item dispatches nothing
current_NeverFills(head, kind, fF, fPts, fN) ==
    IF ~head.nil /\ head.i.f # NoFrame
    THEN [i |-> head.i, filled |-> FALSE]
    ELSE [i |-> NoItem, filled |-> TRUE]

\* current with the fill not reported
current_FillNotReported(head, kind, fF, fPts, fN) ==
    IF ~head.nil /\ head.i.f # NoFrame
    THEN [i |-> head.i, filled |-> FALSE]
    ELSE [i |-> NoItem, filled |-> FALSE]

\* RateEnforcer.current: the item to dispatch (NoItem for nil) and whether it
\* was filled
current(head, kind, fF, fPts, fN) ==
    IF ~head.nil /\ head.i.f # NoFrame
    THEN [i |-> head.i, filled |-> FALSE]
    ELSE [i |-> IF Fill(kind, fF, fPts, fN).f # NoFrame
                THEN Fill(kind, fF, fPts, fN) ELSE NoItem,
          filled |-> TRUE]

\* the added slot taking the item of the slot before it
nextSlot_KeepsItem(ps) == IF ~ps.nil THEN [next(ps) EXCEPT !.i = ps.i] ELSE NilSlot

\* the slot the deferred "add next slot" of tickFunc appends
nextSlot(ps) == IF ~ps.nil THEN next(ps) ELSE NilSlot

\* the slot list after the two deferred functions of tickFunc
tickSlots(ss, removeFirstSlot) ==
    LET added == Append(ss, nextSlot(ss[Len(ss)]))
    IN IF removeFirstSlot THEN Tail(added) ELSE added

\* the warmup test passing one slot early
warmedUp_OneSlotEarly(ss, count) == ~(Len(ss) + 1 < count)

\* the warmup test of tickFunc: enough slots to dispatch
warmedUp(ss, count) == ~(Len(ss) < count)

\* tickSwitchedOut without the comparison with previousNode
tickSwitchedOut_EveryDispatch(i, prev) ==
    IF i.f # NoFrame /\ i.n # Nil THEN i.n ELSE Nil

\* the node of the SwitchedOut event of a tick dispatching i, Nil for none
tickSwitchedOut(i, prev) ==
    IF i.f # NoFrame /\ i.n # Nil /\ prev # i.n THEN i.n ELSE Nil

\* tickPuts with every dispatched frame put, the frame of the filler included
tickPuts_PutsDispatched(cur) ==
    IF cur.i.f # NoFrame THEN <<Put(cur.i.f, "dispatched")>> ELSE <<>>

\* the frames a tick puts after the dispatch
tickPuts(cur) == IF cur.filled THEN <<>> ELSE <<Put(cur.i.f, "dispatched")>>

(***************************************************************************)
(* RateEnforcer.tickFunc, from the lock on                                 *)
(***************************************************************************)
TickWarmup ==
    /\ UNCHANGED <<lpVars, emVars, lgVars, rdVars, panicked>>
    /\ ticks < MaxTicks
    /\ ~warmedUp(slots, slotsCount)
    /\ slots' = tickSlots(slots, FALSE)
    /\ ticks' = ticks + 1
    /\ sinceAccept' = IF sinceAccept >= 0 THEN sinceAccept + 1 ELSE sinceAccept
    /\ last' = [Quiet("tick") EXCEPT !.prevNode = previousNode]
    /\ UNCHANGED <<n, buf, adaptSlotsToIncomingFrames, slotsCount, filler,
                   fillerF, fillerPts, fillerN, previousNode, statFilledRate,
                   allocated, live, doublePut, errors, refBudget, sent, switches,
                   warmTicks, nodeSourced, switchedOut, switchedInAt>>

Tick(refOk) ==
    /\ UNCHANGED <<lpVars, emVars, lgVars, rdVars, panicked>>
    /\ ticks < MaxTicks
    /\ (refOk \/ refBudget > 0)
    /\ warmedUp(slots, slotsCount)
    /\ LET d == distribute(slots, buf)
           head == d.slots[1]
           cur == current(head, filler, fillerF, fillerPts, fillerN)
           \* previousRateEnforcerFiller.NoFill runs when the item of slot 0 is taken
           noFill == ~cur.filled /\ filler = "previous"
           getsFrame == noFill /\ fillerF = NoFrame
           held == IF getsFrame THEN allocated + 1 ELSE fillerF
           out == tickSwitchedOut(cur.i, previousNode)
           puts == d.puts \o (IF noFill /\ ~refOk THEN <<Put(held, "filler")>> ELSE <<>>) \o tickPuts(cur)
           pool == putAll(IF getsFrame THEN live \cup {held} ELSE live, doublePut, puts)
       IN /\ (refOk \/ noFill)
          /\ buf' = d.buf
          /\ slots' = tickSlots(d.slots, TRUE)
          /\ allocated' = IF getsFrame THEN allocated + 1 ELSE allocated
          /\ live' = pool.live
          /\ doublePut' = pool.doublePut
          /\ IF noFill
             THEN /\ fillerN' = cur.i.n
                  /\ fillerF' = IF refOk THEN held ELSE NoFrame
                  /\ fillerPts' = IF refOk THEN cur.i.pts ELSE fillerPts
                  /\ errors' = IF refOk THEN errors ELSE errors + 1
                  /\ refBudget' = IF refOk THEN refBudget ELSE refBudget - 1
             ELSE UNCHANGED <<fillerN, fillerF, fillerPts, errors, refBudget>>
          /\ previousNode' = IF out # Nil THEN out ELSE previousNode
          /\ statFilledRate' = IF cur.filled THEN statFilledRate + 1 ELSE statFilledRate
          /\ nodeSourced' = IF ~head.nil /\ head.i.f # NoFrame /\ cur.i = head.i
                             THEN nodeSourced + 1 ELSE nodeSourced
          /\ switchedOut' = IF out # Nil THEN Append(switchedOut, out) ELSE switchedOut
          /\ last' = [Quiet("tick") EXCEPT
                        !.warm = TRUE, !.disp = cur.i, !.filled = cur.filled,
                        !.evOut = out, !.puts = puts, !.prevNode = previousNode]
    /\ ticks' = ticks + 1
    /\ warmTicks' = warmTicks + 1
    /\ sinceAccept' = IF sinceAccept >= 0 THEN sinceAccept + 1 ELSE sinceAccept
    /\ UNCHANGED <<n, adaptSlotsToIncomingFrames, slotsCount, filler, sent,
                   switches, switchedInAt>>

(***************************************************************************)
(* The rate enforcer of src/libav/rate_enforcer.go                         *)
(*                                                                         *)
(* An earlier rate enforcer with the same fields n, slots, slotsCount and  *)
(* buf; its previousItem is held in the variables of the "previous"        *)
(* filler.  Frames keep the PTS of their source, a slot is as wide as one  *)
(* output period counted in the time base of the frame that anchors it.    *)
(* Its tick removes the first slot before the deferred function adds the   *)
(* next one.                                                               *)
(***************************************************************************)
\* newRateEnforcerSlot of src/libav: the frame rate is OutputFrameRate/1, so
\* timeBase is 1/OutputFrameRate
libavNewRateEnforcerSlot(rn, pts, node) ==
    [nil |-> FALSE, i |-> NoItem, n |-> rn, ptsMin |-> pts,
     ptsMax |-> pts + DescriptorTimeBaseDen(node) \div OutputFrameRate, anchored |-> TRUE]

\* the inner loop of distribute of src/libav for one slot s: a frame in the
\* range of the slot becomes its item, also when the slot has got one in this
\* loop already
RECURSIVE libavScanBuf(_, _, _, _, _)
libavScanBuf(s, b, idx, ns, puts) ==
    IF idx > Len(b) THEN [s |-> s, buf |-> b, puts |-> puts]
    ELSE LET it == b[idx] IN
        IF it.n # s.n
        THEN IF it.n \notin ns
             THEN libavScanBuf(s, RemoveAt(b, idx), idx, ns, Append(puts, Put(it.f, "useless")))
             ELSE libavScanBuf(s, b, idx + 1, ns, puts)
        ELSE IF s.ptsMin <= it.pts /\ s.ptsMax > it.pts
             THEN libavScanBuf([s EXCEPT !.i = it], RemoveAt(b, idx), idx, ns, puts)
             ELSE IF s.ptsMin > it.pts
                  THEN libavScanBuf(s, RemoveAt(b, idx), idx, ns,
                                    Append(puts, Put(it.f, "stale")))
                  ELSE libavScanBuf(s, b, idx + 1, ns, puts)

\* the outer loop of distribute of src/libav, from slot k on
RECURSIVE libavDistributeFrom(_, _, _, _, _)
libavDistributeFrom(ss, b, k, ns, puts) ==
    IF k > Len(ss) THEN [slots |-> ss, buf |-> b, puts |-> puts]
    ELSE IF ss[k].nil \/ ss[k].i.f # NoFrame
         THEN libavDistributeFrom(ss, b, k + 1, ns, puts)
         ELSE LET r == libavScanBuf(ss[k], b, 1, ns, puts)
              IN libavDistributeFrom([ss EXCEPT ![k] = r.s], r.buf, k + 1, ns, r.puts)

\* the end of a dispatching tick of src/libav: r.slots = r.slots[1:], then the
\* deferred function reads r.slots[len(r.slots)-1], which panics on an empty
\* list, and appends the next slot
libavRemoveFirstSlot(ss) ==
    IF Tail(ss) = <<>> THEN [panic |-> TRUE, slots |-> Tail(ss)]
    ELSE [panic |-> FALSE, slots |-> Append(Tail(ss), nextSlot(ss[Len(ss)]))]

\* the function the queue of src/libav runs for a frame of node, whose PTS is
\* the number of frames the node sent before; every AvFrameRef succeeds
LibavHandleFrame(node) ==
    /\ ~panicked
    /\ framesSent < MaxFrames
    /\ sent' = [sent EXCEPT ![node] = @ + 1]
    /\ LET l == slots[Len(slots)]
           rep == TaskC1(l, n, node)
           id == allocated + 1
       IN /\ slots' = IF rep
                      THEN [slots EXCEPT
                              ![Len(slots)] = libavNewRateEnforcerSlot(n, sent[node], node)]
                      ELSE slots
          /\ allocated' = id
          /\ live' = live \cup {id}
          /\ buf' = Append(buf, newRateEnforcerItem(id, sent[node], node))
          /\ last' = [Quiet("task") EXCEPT !.replaced = rep]
    /\ UNCHANGED <<n, adaptSlotsToIncomingFrames, slotsCount, filler, fillerF,
                   fillerPts, fillerN, previousNode, statFilledRate, doublePut, errors,
                   refBudget, switches, ticks, warmTicks, nodeSourced, switchedOut,
                   switchedInAt, sinceAccept>>
    /\ UNCHANGED <<lpVars, emVars, lgVars, rdVars, panicked>>

\* a tick of startTick of src/libav with fewer slots than slotsCount: the
\* deferred function adds the next slot
LibavTickWarmup ==
    /\ ~panicked
    /\ ticks < MaxTicks
    /\ Len(slots) < slotsCount
    /\ slots' = Append(slots, nextSlot(slots[Len(slots)]))
    /\ ticks' = ticks + 1
    /\ last' = Quiet("tick")
    /\ UNCHANGED <<n, buf, adaptSlotsToIncomingFrames, slotsCount, filler,
                   fillerF, fillerPts, fillerN, previousNode, statFilledRate,
                   allocated, live, doublePut, errors, refBudget, sent, switches,
                   warmTicks, nodeSourced, switchedOut, switchedInAt, sinceAccept>>
    /\ UNCHANGED <<lpVars, emVars, lgVars, rdVars, panicked>>

\* a tick of startTick of src/libav with enough slots: distribute, current with
\* its copy to previousItem, the dispatch, the put of the item's frame, the
\* removal of the first slot and the deferred function
LibavTick ==
    /\ ~panicked
    /\ ticks < MaxTicks
    /\ ~(Len(slots) < slotsCount)
    /\ LET d == libavDistributeFrom(slots, buf, 1, usefulNodes(slots), <<>>)
           head == d.slots[1]
           item == ~head.nil /\ head.i.f # NoFrame
           getsFrame == item /\ fillerF = NoFrame
           held == IF getsFrame THEN allocated + 1 ELSE fillerF
           i == IF item THEN head.i
                ELSE IF fillerF # NoFrame THEN newRateEnforcerItem(fillerF, fillerPts, fillerN)
                ELSE NoItem
           puts == d.puts \o (IF item THEN <<Put(head.i.f, "dispatched")>> ELSE <<>>)
           pool == putAll(IF getsFrame THEN live \cup {held} ELSE live, doublePut, puts)
           end == libavRemoveFirstSlot(d.slots)
       IN /\ buf' = d.buf
          /\ slots' = end.slots
          /\ panicked' = end.panic
          /\ allocated' = IF getsFrame THEN allocated + 1 ELSE allocated
          /\ live' = pool.live
          /\ doublePut' = pool.doublePut
          /\ fillerF' = held
          /\ fillerPts' = IF item THEN head.i.pts ELSE fillerPts
          /\ nodeSourced' = IF item THEN nodeSourced + 1 ELSE nodeSourced
          /\ last' = [Quiet("tick") EXCEPT !.warm = TRUE, !.disp = i, !.filled = ~item,
                                           !.puts = puts]
    /\ ticks' = ticks + 1
    /\ warmTicks' = warmTicks + 1
    /\ UNCHANGED <<n, adaptSlotsToIncomingFrames, slotsCount, filler, fillerN,
                   previousNode, statFilledRate, errors, refBudget, sent, switches,
                   switchedOut, switchedInAt, sinceAccept>>
    /\ UNCHANGED <<lpVars, emVars, lgVars, rdVars>>

(***************************************************************************)
(* Demuxer: streams, packet durationer, looper                             *)
(***************************************************************************)
\* number of packets of one stream in the input
MaxPkts == 2
\* number of times the looper loops
MaxLoops == 2

\* stream indexes of the input: 0 is a video stream, 1 an audio stream
Streams == {0, 1}

\* number of times Start is called again after its read loop ended
MaxRestarts == 1

\* the time bases of the inputs explored: 1/StreamTimeBaseDen
StreamTimeBaseDen(s) == IF s = 0 THEN 90000 ELSE 48000

\* nanosecondRational = 1/nanosecondRationalDen
nanosecondRationalDen == 1000000000

\* the inputs explored: the gaps between the DTS of two consecutive packets of a
\* stream, and the PTS - DTS offsets of its packets
DtsGaps(s) == IF s = 0 THEN {1, 3} ELSE {1, 2}
PtsOffsets(s) == IF s = 0 THEN {0, 2} ELSE {0}

\* the shapes of a stream: for each packet its DTS gap to the packet before and
\* its PTS - DTS offset
Shapes(s) ==
    UNION {[1..k -> [gap : DtsGaps(s), off : PtsOffsets(s)]] : k \in 1..MaxPkts}

\* the packets of stream s with the given shape, from packet k on; the first has DTS 0
RECURSIVE StreamPkts(_, _, _, _)
StreamPkts(s, shape, k, dts) ==
    IF k > Len(shape) THEN <<>>
    ELSE LET d == IF k = 1 THEN 0 ELSE dts + shape[k].gap
         IN <<[s |-> s, dts |-> d, pts |-> d + shape[k].off]>>
                \o StreamPkts(s, shape, k + 1, d)

\* the inputs: the packets of stream 0, then those of stream 1; within a stream
\* the DTS do not decrease and no PTS is before its DTS
Files ==
    {StreamPkts(0, a, 1, 0) \o StreamPkts(1, b, 1, 0) : a \in Shapes(0), b \in Shapes(1)}

\* newPktDurationer: no PTS seen, no duration observed
newPktDurationer == [defined |-> FALSE, lastPTS |-> 0, lastDuration |-> 0]

\* pktDurationer.handlePkt: the durationer after the packet, and previousDuration
pdHandlePkt(d, pts) ==
    LET previousDuration == IF d.defined /\ pts > d.lastPTS THEN pts - d.lastPTS ELSE 0
    IN [pd |-> [defined |-> TRUE, lastPTS |-> pts,
                lastDuration |-> IF previousDuration > 0 THEN previousDuration
                                 ELSE d.lastDuration],
        previousDuration |-> previousDuration]

\* pktDurationer.flush: the last observed duration, and the durationer reset
pdFlush(d) == [pd |-> newPktDurationer, lastDuration |-> d.lastDuration]

\* durationToTimeBase(d, 1/den) for d > 0: the whole number of time base units in
\* d nanoseconds and the nanoseconds left over
durationToTimeBase(d, den) ==
    LET g == GCD(den, durationDen)
        i == (d * (den \div g)) \div (durationDen \div g)
    IN [i |-> i, r |-> d - RescaleQ(i, den, durationDen)]

\* newDemuxerLooperStream
newDemuxerLooperStream ==
    [duration |-> 0, durationD |-> 0, lastDuration |-> 0, restampDelta |-> 0,
     restampRemainder |-> 0]

\* the "Restamp" block of handlePkt with the PTS rebuilt from the DTS read before
\* SetDts
restamp_PtsFromOldDts(pkt, restampDelta) ==
    IF restampDelta > 0
    THEN LET d == pkt.pts - pkt.dts
         IN [pkt EXCEPT !.dts = pkt.dts + restampDelta, !.pts = pkt.dts + d]
    ELSE pkt

\* the "Restamp" block of demuxerLooper.handlePkt
restamp(pkt, restampDelta) ==
    IF restampDelta > 0
    THEN LET d == pkt.pts - pkt.dts
             dts == pkt.dts + restampDelta
         IN [pkt EXCEPT !.dts = dts, !.pts = dts + d]
    ELSE pkt

\* demuxerLooper.handlePkt on the stream s of the packet: the stream and the
\* packet after it, and *previousDuration
handlePkt(s, pkt, previousDuration) ==
    [s |-> IF previousDuration > 0 THEN [s EXCEPT !.duration = @ + previousDuration]
           ELSE IF s.lastDuration > 0 THEN [s EXCEPT !.lastDuration = 0]
           ELSE s,
     previousDuration |-> IF previousDuration > 0 THEN previousDuration
                          ELSE IF s.lastDuration > 0 THEN s.lastDuration
                          ELSE previousDuration,
     pkt |-> restamp(pkt, s.restampDelta)]

\* the first loop of looping with the flushed duration not added to the duration
loopingFlush_FlushNotAdded(s, d, den) ==
    LET lastDuration == pdFlush(d).lastDuration
        duration == s.duration
    IN [s EXCEPT !.lastDuration = lastDuration, !.duration = duration,
                 !.durationD = RescaleQ(duration, den, durationDen)]

\* the first loop of demuxerLooper.looping on one stream
loopingFlush(s, d, den) ==
    LET lastDuration == pdFlush(d).lastDuration
        duration == s.duration + lastDuration
    IN [s EXCEPT !.lastDuration = lastDuration, !.duration = duration,
                 !.durationD = RescaleQ(duration, den, durationDen)]

\* maxDuration after the first loop of looping
loopingMaxDuration(fs) ==
    LET ds == {fs[x].durationD : x \in DOMAIN fs} \cup {0}
    IN CHOOSE m \in ds : \A o \in ds : o <= m

\* the second loop of looping with the remainder of the loop before left out of
\* the delta
loopingDelta_RemainderDropped(s, maxDuration, den) ==
    LET d == maxDuration - s.durationD
        conv == durationToTimeBase(d, den)
        i == IF d > 0 /\ conv.i > 0 THEN conv.i ELSE 0
    IN [s EXCEPT !.restampRemainder = IF d > 0 THEN conv.r ELSE @,
                 !.lastDuration = @ + i,
                 !.restampDelta = @ + s.duration + i,
                 !.duration = 0]

\* the second loop of looping with the gap not added to lastDuration
loopingDelta_GapNotInLastDuration(s, maxDuration, den) ==
    LET d == maxDuration - s.durationD + s.restampRemainder
        conv == durationToTimeBase(d, den)
        i == IF d > 0 /\ conv.i > 0 THEN conv.i ELSE 0
    IN [s EXCEPT !.restampRemainder = IF d > 0 THEN conv.r ELSE @,
                 !.restampDelta = @ + s.duration + i,
                 !.duration = 0]

\* the second loop of demuxerLooper.looping on one stream
loopingDelta(s, maxDuration, den) ==
    LET d == maxDuration - s.durationD + s.restampRemainder
        conv == durationToTimeBase(d, den)
        i == IF d > 0 /\ conv.i > 0 THEN conv.i ELSE 0
    IN [s EXCEPT !.restampRemainder = IF d > 0 THEN conv.r ELSE @,
                 !.lastDuration = @ + i,
                 !.restampDelta = @ + s.duration + i,
                 !.duration = 0]

\* demuxerLooper.looping: the streams of the looper after it
looping(m, pds) ==
    LET fs == [x \in DOMAIN m |-> loopingFlush(m[x], pds[x], timeBaseDen[x])]
    IN [x \in DOMAIN m |->
            loopingDelta(fs[x], loopingMaxDuration(fs), timeBaseDen[x])]

\* reset with restampDelta zeroed as well
reset_DeltaZeroed(m) ==
    [x \in DOMAIN m |->
        [m[x] EXCEPT !.duration = 0, !.lastDuration = 0, !.restampRemainder = 0,
                     !.restampDelta = 0]]

\* demuxerLooper.reset: the streams of the looper after it
reset(m) ==
    [x \in DOMAIN m |->
        [m[x] EXCEPT !.duration = 0, !.lastDuration = 0, !.restampRemainder = 0]]

\* what a step of the read loop did: for a packet, its stream, its timestamps as
\* read and as handed on, the restampDelta applied, the previousDuration handed
\* on and what the stream handed on before
Idle(op) ==
    [op |-> op, s |-> 0, origDts |-> 0, origPts |-> 0, dts |-> 0, pts |-> 0,
     restampDelta |-> 0, previousDuration |-> 0, first |-> TRUE, prevDts |-> 0]

\* the demuxer after NewDemuxer and Open on the input f, whose streams have the
\* time bases 1/tb[x], with the durations counted in 1/unit second
LPInit(f, tb, unit) ==
    /\ file = f
    /\ timeBaseDen = tb
    /\ durationDen = unit
    /\ restarts = 0
    /\ pos = 1
    /\ loops = 0
    /\ lss = [x \in Streams |-> newDemuxerLooperStream]
    /\ pd = [x \in Streams |-> newPktDurationer]
    /\ emitted = [x \in Streams |-> [seen |-> FALSE, dts |-> 0]]
    /\ stopped = FALSE
    /\ step = Idle("init")

\* Demuxer.readFrame when ReadFrame returns a packet: durationer, looper, then the
\* packet is handed on (dispatched, or given to the rate emulator of its stream)
ReadPkt ==
    /\ ~stopped
    /\ pos <= Len(file)
    /\ LET pkt == file[pos]
           x == pkt.s
           dur == pdHandlePkt(pd[x], pkt.pts)
           h == handlePkt(lss[x], pkt, dur.previousDuration)
       IN /\ pd' = [pd EXCEPT ![x] = dur.pd]
          /\ lss' = [lss EXCEPT ![x] = h.s]
          /\ emitted' = [emitted EXCEPT ![x] = [seen |-> TRUE, dts |-> h.pkt.dts]]
          /\ step' = [op |-> "pkt", s |-> x, origDts |-> pkt.dts, origPts |-> pkt.pts,
                     dts |-> h.pkt.dts, pts |-> h.pkt.pts,
                     restampDelta |-> lss[x].restampDelta,
                     previousDuration |-> h.previousDuration,
                     first |-> ~emitted[x].seen, prevDts |-> emitted[x].dts]
    /\ pos' = pos + 1
    /\ UNCHANGED <<file, timeBaseDen, durationDen, restarts, loops, stopped>>
    /\ UNCHANGED <<reVars, emVars, lgVars, rdVars, panicked>>

\* Demuxer.readFrame when ReadFrame returns EOF and the demuxer loops: looping,
\* then the seek to the start
Looping ==
    /\ ~stopped
    /\ pos > Len(file)
    /\ loops < MaxLoops
    /\ lss' = looping(lss, pd)
    /\ pd' = [x \in Streams |-> pdFlush(pd[x]).pd]
    /\ pos' = 1
    /\ loops' = loops + 1
    /\ step' = Idle("looping")
    /\ UNCHANGED <<file, timeBaseDen, durationDen, restarts, emitted, stopped>>
    /\ UNCHANGED <<reVars, emVars, lgVars, rdVars, panicked>>

\* the read loop of Demuxer.Start ends (the context is done): the looper is reset
Stop ==
    /\ ~stopped
    /\ stopped' = TRUE
    /\ lss' = reset(lss)
    /\ step' = Idle("stop")
    /\ UNCHANGED <<file, timeBaseDen, durationDen, restarts, pos, loops, pd, emitted>>
    /\ UNCHANGED <<reVars, emVars, lgVars, rdVars, panicked>>

\* Demuxer.Start is called again after its read loop ended: the read loop goes on
\* with the looper, the durationers and the position in the input as they are
Restart ==
    /\ stopped
    /\ restarts < MaxRestarts
    /\ stopped' = FALSE
    /\ restarts' = restarts + 1
    /\ step' = Idle("start")
    /\ UNCHANGED <<file, timeBaseDen, durationDen, pos, loops, lss, pd, emitted>>
    /\ UNCHANGED <<reVars, emVars, lgVars, rdVars, panicked>>

\* no demuxer: the state of the demuxer in the runs of the rate enforcer
LPNone ==
    /\ file = <<>>
    /\ timeBaseDen = [x \in Streams |-> StreamTimeBaseDen(x)]
    /\ durationDen = nanosecondRationalDen
    /\ restarts = MaxRestarts
    /\ pos = 1
    /\ loops = 0
    /\ lss = [x \in Streams |-> newDemuxerLooperStream]
    /\ pd = [x \in Streams |-> newPktDurationer]
    /\ emitted = [x \in Streams |-> [seen |-> FALSE, dts |-> 0]]
    /\ stopped = TRUE
    /\ step = Idle("init")

(***************************************************************************)
(* Demuxer rate emulator                                                   *)
(*                                                                         *)
(* The goroutine of Demuxer.Start reads packets and calls handlePkt of the *)
(* emulator of the packet's stream; each emulator has a goroutine that     *)
(* runs start: the loop of its serial chan, then the clean-up.  The chan   *)
(* is built without ProcessAll: its loop returns once its context is done, *)
(* whatever is left in it, and Add drops a function once the context is    *)
(* done.  A sleep ends when its deadline is reached or its context is      *)
(* done: the clock does not pass the deadline of a sleeping goroutine.     *)
(***************************************************************************)
\* number of packets the demuxer reads
MaxRead == 3
\* number of clock periods the wall clock runs for
MaxNow == 3

\* the time base of the stream of an emulator: 1/EmulatorTimeBaseDen
EmulatorTimeBaseDen(s) == IF s = 0 THEN 100 ELSE 50

\* the wall clock advances by periods of 10 ms, in nanoseconds
ClockPeriod == RescaleQ(1, 100, nanosecondRationalDen)

\* the previousDuration values handed to handlePkt, in time base units
PreviousDurations(s) == IF s = 0 THEN {0, 2} ELSE {0, 1}

\* the buffer durations given to newDemuxerRateEmulator
BufferDurations == {0, ClockPeriod}

\* newDemuxerRateEmulator: bufferDuration, time.Second when none is given
newDemuxerRateEmulator(b) == IF b <= 0 THEN nanosecondRationalDen ELSE b

\* a packet an emulator got from the pool: the k-th packet read of stream s
EPkt(s, k) == [s |-> s, k |-> k]

\* a function in the chan of an emulator: the task of packet k to release at
\* the time at, or the call of stop added by eof
ETask(kind, k, at) == [kind |-> kind, k |-> k, at |-> at]

\* handlePkt "Get pkt at" with the time of the call in place of lastAt
pktAt_FromNow(la, t, previousDuration, den) ==
    IF previousDuration > 0
    THEN t + RescaleQ(previousDuration, den, nanosecondRationalDen)
    ELSE t

\* handlePkt "Get pkt at" and "Process previous duration": the release time of a
\* packet handed at time t to an emulator whose lastAt is la
pktAt(la, t, previousDuration, den) ==
    LET at == IF la = 0 THEN t ELSE la
    IN IF previousDuration > 0
       THEN at + RescaleQ(previousDuration, den, nanosecondRationalDen)
       ELSE at

\* the delta of handlePkt with the buffer duration not taken off
backpressure_BufferIgnored(la, t, b) == la - t

\* handlePkt "Too many pkts are buffered": the delta the demuxer sleeps for when
\* it is positive
backpressure(la, t, b) == (la - t) - b

\* Chan.Add with the function put first
chanAdd_First(q, task, done) == IF done THEN q ELSE <<task>> \o q

\* Chan.Add with the functions that wait thrown away
chanAdd_Replaces(q, task, done) == IF done THEN q ELSE <<task>>

\* e.c.Add: the functions of the chan after it; none is added once the context
\* of the chan is done
chanAdd(q, task, done) == IF done THEN q ELSE Append(q, task)

\* the number of packets read so far
totalRead == pktsRead[0] + pktsRead[1]

\* demuxerRateEmulator.ctx is done: the context of the demuxer is cancelled or
\* stop has cancelled the derived context
ectxDone(s) == ctxDone \/ cancelled[s]

\* the read loop of Start after readFrame: HandlePause, then the context check
afterReadFrame == IF ctxDone THEN "wait" ELSE "read"

\* no call of handlePkt yet
NoCall ==
    [op |-> "none", s |-> 0, k |-> 0, first |-> FALSE, prevAt |-> 0, pktAt |-> 0,
     previousDuration |-> 0, calledAt |-> 0, slept |-> FALSE, returned |-> FALSE,
     retAt |-> 0, cancelled |-> FALSE]

\* the demuxer after NewDemuxer with the given options: nothing read
EMInit(emulate, b, refs) ==
    /\ now = ClockPeriod
    /\ ctxDone = FALSE
    /\ emulateRate = emulate
    /\ bufferDuration = newDemuxerRateEmulator(b)
    /\ pc = "read"
    /\ sleepUntil = 0
    /\ pktsRead = [x \in Streams |-> 0]
    /\ lastAt = [x \in Streams |-> 0]
    /\ cfs = [x \in Streams |-> <<>>]
    /\ eps = [x \in Streams |-> {}]
    /\ est = [x \in Streams |-> IF emulate THEN "running" ELSE "done"]
    /\ cancelled = [x \in Streams |-> FALSE]
    /\ taken = {}
    /\ delivered = [x \in Streams |-> <<>>]
    /\ pktRefBudget = refs
    /\ handled = NoCall

\* no demuxer goroutine: the state of these variables in the other runs
EMNone ==
    /\ now = ClockPeriod
    /\ ctxDone = FALSE
    /\ emulateRate = FALSE
    /\ bufferDuration = newDemuxerRateEmulator(0)
    /\ pc = "done"
    /\ sleepUntil = 0
    /\ pktsRead = [x \in Streams |-> 0]
    /\ lastAt = [x \in Streams |-> 0]
    /\ cfs = [x \in Streams |-> <<>>]
    /\ eps = [x \in Streams |-> {}]
    /\ est = [x \in Streams |-> "done"]
    /\ cancelled = [x \in Streams |-> FALSE]
    /\ taken = {}
    /\ delivered = [x \in Streams |-> <<>>]
    /\ pktRefBudget = 0
    /\ handled = NoCall

\* the context of the demuxer is cancelled
Cancel ==
    /\ pc # "done"
    /\ ~ctxDone
    /\ ctxDone' = TRUE
    /\ UNCHANGED <<now, emulateRate, bufferDuration, pc, sleepUntil, pktsRead, lastAt,
                   cfs, eps, est, cancelled, taken, delivered, pktRefBudget, handled>>
    /\ UNCHANGED <<reVars, lpVars, lgVars, rdVars, panicked>>

\* the wall clock advances by one period; it does not pass the deadline of a
\* sleeping goroutine
TimePasses ==
    /\ pc # "done"
    /\ now < MaxNow * ClockPeriod
    /\ ~(pc = "sleep" /\ sleepUntil <= now)
    /\ \A x \in Streams : ~(est[x] = "task" /\ Head(cfs[x]).at <= now)
    /\ now' = now + ClockPeriod
    /\ UNCHANGED <<ctxDone, emulateRate, bufferDuration, pc, sleepUntil, pktsRead, lastAt,
                   cfs, eps, est, cancelled, taken, delivered, pktRefBudget, handled>>
    /\ UNCHANGED <<reVars, lpVars, lgVars, rdVars, panicked>>

\* Demuxer.readFrame on a packet of stream s without rate emulation: the packet
\* is dispatched
DirectDispatch(s) ==
    /\ pc = "read"
    /\ ~emulateRate
    /\ totalRead < MaxRead
    /\ pktsRead' = [pktsRead EXCEPT ![s] = @ + 1]
    /\ delivered' = [delivered EXCEPT ![s] = Append(@, pktsRead[s] + 1)]
    /\ pc' = afterReadFrame
    /\ UNCHANGED <<now, ctxDone, emulateRate, bufferDuration, sleepUntil, lastAt, cfs, eps,
                   est, cancelled, taken, pktRefBudget, handled>>
    /\ UNCHANGED <<reVars, lpVars, lgVars, rdVars, panicked>>

\* Demuxer.readFrame on a packet of stream s with rate emulation:
\* demuxerRateEmulator.handlePkt up to its sleep, and the rest of the iteration
\* of the read loop when it does not sleep
EmulatorHandlePkt(s, previousDuration, refOk) ==
    /\ pc = "read"
    /\ emulateRate
    /\ totalRead < MaxRead
    /\ pktsRead[s] = 0 => previousDuration = 0
    /\ refOk \/ pktRefBudget > 0
    /\ LET k == pktsRead[s] + 1
           at == pktAt(lastAt[s], now, previousDuration, EmulatorTimeBaseDen(s))
           delta == backpressure(at, now, bufferDuration)
       IN /\ pktsRead' = [pktsRead EXCEPT ![s] = k]
          /\ taken' = taken \cup {EPkt(s, k)}
          /\ IF refOk
             THEN /\ eps' = [eps EXCEPT ![s] = @ \cup {EPkt(s, k)}]
                  /\ cfs' = [cfs EXCEPT ![s] = chanAdd(@, ETask("pkt", k, at), ectxDone(s))]
                  /\ lastAt' = [lastAt EXCEPT ![s] = at]
                  /\ pc' = IF delta > 0 THEN "sleep" ELSE afterReadFrame
                  /\ sleepUntil' = IF delta > 0 THEN now + delta ELSE sleepUntil
                  /\ handled' = [op |-> "handlePkt", s |-> s, k |-> k, first |-> lastAt[s] = 0,
                            prevAt |-> lastAt[s], pktAt |-> at,
                            previousDuration |-> previousDuration, calledAt |-> now,
                            slept |-> delta > 0, returned |-> ~(delta > 0),
                            retAt |-> IF delta > 0 THEN 0 ELSE now, cancelled |-> FALSE]
                  /\ UNCHANGED pktRefBudget
             ELSE /\ pktRefBudget' = pktRefBudget - 1
                  /\ pc' = afterReadFrame
                  /\ handled' = [NoCall EXCEPT !.op = "refError", !.s = s, !.k = k]
                  /\ UNCHANGED <<eps, cfs, lastAt, sleepUntil>>
    /\ UNCHANGED <<now, ctxDone, emulateRate, bufferDuration, est, cancelled, delivered>>
    /\ UNCHANGED <<reVars, lpVars, lgVars, rdVars, panicked>>

\* the sleep of handlePkt ends, at its deadline or because the context of the
\* demuxer is done: handlePkt returns, then the rest of the iteration
HandlePktReturns ==
    /\ pc = "sleep"
    /\ now >= sleepUntil \/ ctxDone
    /\ pc' = afterReadFrame
    /\ handled' = [handled EXCEPT !.returned = TRUE, !.retAt = now, !.cancelled = now < sleepUntil]
    /\ UNCHANGED <<now, ctxDone, emulateRate, bufferDuration, sleepUntil, pktsRead, lastAt,
                   cfs, eps, est, cancelled, taken, delivered, pktRefBudget>>
    /\ UNCHANGED <<reVars, lpVars, lgVars, rdVars, panicked>>

\* Demuxer.readFrame when ReadFrame returns EOF and the demuxer does not loop:
\* eof on every emulator, and the read loop ends
ReadEof ==
    /\ pc = "read"
    /\ cfs' = IF emulateRate
              THEN [x \in Streams |-> chanAdd(cfs[x], ETask("stop", 0, 0), ectxDone(x))]
              ELSE cfs
    /\ pc' = "wait"
    /\ UNCHANGED <<now, ctxDone, emulateRate, bufferDuration, sleepUntil, pktsRead, lastAt,
                   eps, est, cancelled, taken, delivered, pktRefBudget, handled>>
    /\ UNCHANGED <<reVars, lpVars, lgVars, rdVars, panicked>>

\* the function of a packet ending without the check of the context
taskEnds_ContextNotChecked(s) ==
    LET task == Head(cfs[s])
    IN /\ delivered' = [delivered EXCEPT ![s] = Append(@, task.k)]
       /\ taken' = taken \ {EPkt(s, task.k)}
       /\ eps' = [eps EXCEPT ![s] = @ \ {EPkt(s, task.k)}]
       /\ cfs' = [cfs EXCEPT ![s] = Tail(@)]
       /\ est' = [est EXCEPT ![s] = "running"]

\* the function of a packet ends: the packet is dispatched unless the context of
\* the emulator is done, then it is put back and taken off ps
taskEnds(s) ==
    LET task == Head(cfs[s])
    IN /\ delivered' = IF ectxDone(s) THEN delivered
                        ELSE [delivered EXCEPT ![s] = Append(@, task.k)]
       /\ taken' = taken \ {EPkt(s, task.k)}
       /\ eps' = [eps EXCEPT ![s] = @ \ {EPkt(s, task.k)}]
       /\ cfs' = [cfs EXCEPT ![s] = Tail(@)]
       /\ est' = [est EXCEPT ![s] = "running"]

\* the loop of the chan of the emulator of stream s takes its first function:
\* the function of a packet sleeps until the release time of the packet when
\* that is still to come, and the function added by eof calls stop
TaskStarts(s) ==
    /\ est[s] = "running"
    /\ ~ectxDone(s)
    /\ cfs[s] # <<>>
    /\ LET task == Head(cfs[s])
       IN IF task.kind = "stop"
          THEN /\ cancelled' = [cancelled EXCEPT ![s] = TRUE]
               /\ cfs' = [cfs EXCEPT ![s] = Tail(@)]
               /\ UNCHANGED <<est, eps, taken, delivered>>
          ELSE IF task.at > now
          THEN /\ est' = [est EXCEPT ![s] = "task"]
               /\ UNCHANGED <<cancelled, cfs, eps, taken, delivered>>
          ELSE /\ taskEnds(s)
               /\ UNCHANGED cancelled
    /\ UNCHANGED <<now, ctxDone, emulateRate, bufferDuration, pc, sleepUntil, pktsRead,
                   lastAt, pktRefBudget, handled>>
    /\ UNCHANGED <<reVars, lpVars, lgVars, rdVars, panicked>>

\* the sleep of the function of a packet ends, at the release time or because
\* the context of the emulator is done
TaskWakes(s) ==
    /\ est[s] = "task"
    /\ Head(cfs[s]).at <= now \/ ectxDone(s)
    /\ taskEnds(s)
    /\ UNCHANGED <<now, ctxDone, emulateRate, bufferDuration, pc, sleepUntil, pktsRead,
                   lastAt, cancelled, pktRefBudget, handled>>
    /\ UNCHANGED <<reVars, lpVars, lgVars, rdVars, panicked>>

\* the context of the emulator of stream s is done: the loop of its chan
\* returns, start puts the packets left in ps back and resets the chan, then
\* the goroutine calls stop and marks itself done
StartReturns(s) ==
    /\ est[s] = "running"
    /\ ectxDone(s)
    /\ taken' = taken \ eps[s]
    /\ eps' = [eps EXCEPT ![s] = {}]
    /\ cfs' = [cfs EXCEPT ![s] = <<>>]
    /\ cancelled' = [cancelled EXCEPT ![s] = TRUE]
    /\ est' = [est EXCEPT ![s] = "done"]
    /\ UNCHANGED <<now, ctxDone, emulateRate, bufferDuration, pc, sleepUntil, pktsRead,
                   lastAt, delivered, pktRefBudget, handled>>
    /\ UNCHANGED <<reVars, lpVars, lgVars, rdVars, panicked>>

\* the read loop has ended and every emulator goroutine is done: wg.Wait
\* returns and the function given to BaseNode.Start returns
StartBodyReturns ==
    /\ pc = "wait"
    /\ \A x \in Streams : est[x] = "done"
    /\ pc' = "done"
    /\ UNCHANGED <<now, ctxDone, emulateRate, bufferDuration, sleepUntil, pktsRead, lastAt,
                   cfs, eps, est, cancelled, taken, delivered, pktRefBudget, handled>>
    /\ UNCHANGED <<reVars, lpVars, lgVars, rdVars, panicked>>

\* Demuxer.Start is called again after the function it gave to BaseNode.Start
\* has returned: the node has a new context, and with rate emulation a new
\* goroutine runs start on each emulator, which derives a new context; the
\* emulators are the ones NewDemuxer created, with their lastAt
EmulatorRestart ==
    /\ pc = "done"
    /\ restarts < MaxRestarts
    /\ restarts' = restarts + 1
    /\ pc' = "read"
    /\ ctxDone' = FALSE
    /\ cancelled' = [x \in Streams |-> FALSE]
    /\ est' = [x \in Streams |-> IF emulateRate THEN "running" ELSE "done"]
    /\ handled' = [NoCall EXCEPT !.op = "restart"]
    /\ UNCHANGED <<now, emulateRate, bufferDuration, sleepUntil, pktsRead, lastAt, cfs,
                   eps, taken, delivered, pktRefBudget>>
    /\ UNCHANGED <<file, timeBaseDen, durationDen, pos, loops, lss, pd, emitted, stopped,
                   step>>
    /\ UNCHANGED <<reVars, lgVars, rdVars, panicked>>

(***************************************************************************)
(* Demuxer rate emulator with the packets of the pool                      *)
(*                                                                         *)
(* The packets the emulators get are the objects of the pool of the        *)
(* demuxer: put gives an object back to the free list and get may return   *)
(* it again.  ps is keyed by the pointer.  The clean-up of the function of *)
(* a packet puts the packet back, then takes the lock of ps and deletes    *)
(* the pointer: the goroutine of Start can run handlePkt between the two.  *)
(* Here taken holds pointers, and the functions in the chans and delivered *)
(* carry the pointer of their packet.                                      *)
(***************************************************************************)
\* number of packet objects the pool can hand out
MaxPoolPkts == 2

\* the packet objects of the pool, by pointer
PoolPkts == 1..MaxPoolPkts

\* pktPool.get: the pointers it can return, one of the free list or a new object
poolGet(out) == PoolPkts \ out

\* pktPool.put: the pointers out of the pool after it
poolPut(out, p) == out \ {p}

\* demuxerRateEmulator.handlePkt up to its sleep, on the packet object p the pool
\* returns, and the rest of the iteration of the read loop when it does not sleep
PooledHandlePkt(s, previousDuration, p) ==
    /\ pc = "read"
    /\ emulateRate
    /\ totalRead < MaxRead
    /\ pktsRead[s] = 0 => previousDuration = 0
    /\ p \in poolGet(taken)
    /\ LET at == pktAt(lastAt[s], now, previousDuration, EmulatorTimeBaseDen(s))
           delta == backpressure(at, now, bufferDuration)
       IN /\ pktsRead' = [pktsRead EXCEPT ![s] = @ + 1]
          /\ taken' = taken \cup {p}
          /\ eps' = [eps EXCEPT ![s] = @ \cup {p}]
          /\ cfs' = [cfs EXCEPT ![s] = chanAdd(@, ETask("pkt", p, at), ectxDone(s))]
          /\ lastAt' = [lastAt EXCEPT ![s] = at]
          /\ pc' = IF delta > 0 THEN "sleep" ELSE afterReadFrame
          /\ sleepUntil' = IF delta > 0 THEN now + delta ELSE sleepUntil
          /\ handled' = [op |-> "handlePkt", s |-> s, k |-> p, first |-> lastAt[s] = 0,
                         prevAt |-> lastAt[s], pktAt |-> at,
                         previousDuration |-> previousDuration, calledAt |-> now,
                         slept |-> delta > 0, returned |-> ~(delta > 0),
                         retAt |-> IF delta > 0 THEN 0 ELSE now, cancelled |-> FALSE]
    /\ UNCHANGED <<now, ctxDone, emulateRate, bufferDuration, est, cancelled, delivered,
                   pktRefBudget>>
    /\ UNCHANGED <<reVars, lpVars, lgVars, rdVars, panicked>>

\* the function of a packet up to the put of its clean-up: the packet is
\* dispatched unless the context of the emulator is done, then it is put back;
\* it is still in ps
pooledTaskPuts(s) ==
    LET task == Head(cfs[s])
    IN /\ delivered' = IF ectxDone(s) THEN delivered
                        ELSE [delivered EXCEPT ![s] = Append(@, task.k)]
       /\ taken' = poolPut(taken, task.k)
       /\ est' = [est EXCEPT ![s] = "unstore"]
       /\ UNCHANGED <<cfs, eps>>

\* TaskStarts on the packets of the pool
PooledTaskStarts(s) ==
    /\ est[s] = "running"
    /\ ~ectxDone(s)
    /\ cfs[s] # <<>>
    /\ LET task == Head(cfs[s])
       IN IF task.kind = "stop"
          THEN /\ cancelled' = [cancelled EXCEPT ![s] = TRUE]
               /\ cfs' = [cfs EXCEPT ![s] = Tail(@)]
               /\ UNCHANGED <<est, eps, taken, delivered>>
          ELSE IF task.at > now
          THEN /\ est' = [est EXCEPT ![s] = "task"]
               /\ UNCHANGED <<cancelled, cfs, eps, taken, delivered>>
          ELSE /\ pooledTaskPuts(s)
               /\ UNCHANGED cancelled
    /\ UNCHANGED <<now, ctxDone, emulateRate, bufferDuration, pc, sleepUntil, pktsRead,
                   lastAt, pktRefBudget, handled>>
    /\ UNCHANGED <<reVars, lpVars, lgVars, rdVars, panicked>>

\* TaskWakes on the packets of the pool
PooledTaskWakes(s) ==
    /\ est[s] = "task"
    /\ Head(cfs[s]).at <= now \/ ectxDone(s)
    /\ pooledTaskPuts(s)
    /\ UNCHANGED <<now, ctxDone, emulateRate, bufferDuration, pc, sleepUntil, pktsRead,
                   lastAt, cancelled, pktRefBudget, handled>>
    /\ UNCHANGED <<reVars, lpVars, lgVars, rdVars, panicked>>

\* the end of the clean-up of the function of a packet: with the lock of ps, the
\* pointer of the packet is deleted from ps, and the function returns
PooledTaskUnstores(s) ==
    /\ est[s] = "unstore"
    /\ eps' = [eps EXCEPT ![s] = @ \ {Head(cfs[s]).k}]
    /\ cfs' = [cfs EXCEPT ![s] = Tail(@)]
    /\ est' = [est EXCEPT ![s] = "running"]
    /\ UNCHANGED <<now, ctxDone, emulateRate, bufferDuration, pc, sleepUntil, pktsRead,
                   lastAt, cancelled, taken, delivered, pktRefBudget, handled>>
    /\ UNCHANGED <<reVars, lpVars, lgVars, rdVars, panicked>>

\* StartReturns on the packets of the pool: the packets left in ps are put back
PooledStartReturns(s) ==
    /\ est[s] = "running"
    /\ ectxDone(s)
    /\ taken' = taken \ eps[s]
    /\ eps' = [eps EXCEPT ![s] = {}]
    /\ cfs' = [cfs EXCEPT ![s] = <<>>]
    /\ cancelled' = [cancelled EXCEPT ![s] = TRUE]
    /\ est' = [est EXCEPT ![s] = "done"]
    /\ UNCHANGED <<now, ctxDone, emulateRate, bufferDuration, pc, sleepUntil, pktsRead,
                   lastAt, delivered, pktRefBudget, handled>>
    /\ UNCHANGED <<reVars, lpVars, lgVars, rdVars, panicked>>

(***************************************************************************)
(* Demuxer.readFrame when ReadFrame fails                                  *)
(*                                                                         *)
(* ReadFrame returns the packets of the input, then EOF; it may fail with  *)
(* another error at any time.  On EOF while the demuxer loops, readFrame   *)
(* lets the looper know and seeks to the start.  Otherwise it lets the     *)
(* rate emulators know of an EOF, asks the custom error handler if there   *)
(* is one, and falls back on the default handling.                         *)
(***************************************************************************)
\* the number of times ReadFrame fails in a run
MaxReadErrors == 3

\* the errors of ReadFrame: astiav.ErrEof and any other error
ReadErrors == {"eof", "other"}

\* what a read-frame error handler may return
HandlerResults == [stop : BOOLEAN, handled : BOOLEAN]

\* the looping path of readFrame after looping: the seek to the start, whose
\* failure goes unnoticed
seekToStart_FailureIgnored(seekOk) ==
    [emitted |-> <<>>, stop |-> FALSE]

\* the looping path of readFrame after looping: the seek to the start, whose
\* failure is emitted and stops the read loop
seekToStart(seekOk) ==
    IF seekOk THEN [emitted |-> <<>>, stop |-> FALSE]
    ELSE [emitted |-> <<"seeking to frame">>, stop |-> TRUE]

\* the custom error handling of readFrame with the stop of the handler dropped
customHandling_StopDropped(handler, h) ==
    IF handler # "nil" /\ h.handled THEN [handled |-> TRUE, stop |-> FALSE]
    ELSE [handled |-> FALSE, stop |-> FALSE]

\* the custom error handling of readFrame: with a handler that reports the error
\* as handled, readFrame returns the stop of the handler
customHandling(handler, h) ==
    IF handler # "nil" /\ h.handled THEN [handled |-> TRUE, stop |-> h.stop]
    ELSE [handled |-> FALSE, stop |-> FALSE]

\* the default error handling of readFrame emitting every error
defaultHandling_EofEmitted(err) ==
    [emitted |-> <<"reading frame">>, stop |-> TRUE]

\* the default error handling of readFrame: an error other than EOF is emitted,
\* and the read loop stops
defaultHandling(err) ==
    [emitted |-> IF err # "eof" THEN <<"reading frame">> ELSE <<>>, stop |-> TRUE]

\* readFrame takes the looping path: the demuxer loops and the error is EOF
loopingPath(l, err) == l /\ err = "eof"

\* what readFrame does when ReadFrame fails with err: whether it calls looping
\* and seeks, whether it calls eof on the rate emulators, whether it asks the
\* custom handler, the error events it emits and the stop it returns
readFrameError(l, emulate, handler, err, seekOk, h) ==
    IF loopingPath(l, err)
    THEN [looping |-> TRUE, eof |-> FALSE, consulted |-> FALSE, handled |-> FALSE,
          emitted |-> seekToStart(seekOk).emitted, stop |-> seekToStart(seekOk).stop]
    ELSE LET c == customHandling(handler, h)
         IN [looping |-> FALSE, eof |-> emulate /\ err = "eof",
             consulted |-> handler # "nil", handled |-> c.handled,
             emitted |-> IF c.handled THEN <<>> ELSE defaultHandling(err).emitted,
             stop |-> IF c.handled THEN c.stop ELSE defaultHandling(err).stop]

\* no call of readFrame has seen ReadFrame fail
NoReadError ==
    [count |-> 0, err |-> "none", loop |-> FALSE, seekOk |-> TRUE,
     h |-> [stop |-> FALSE, handled |-> FALSE], looping |-> FALSE, eof |-> FALSE,
     consulted |-> FALSE, handled |-> FALSE, emitted |-> <<>>, stop |-> FALSE]

\* the demuxer after NewDemuxer with the given options
RDInit(l, handler) ==
    /\ loop = l
    /\ readFrameErrorHandler = handler
    /\ errorEvents = <<>>
    /\ rf = NoReadError

\* no demuxer: the state of these variables in the other runs
RDNone == RDInit(FALSE, "nil")

\* Demuxer.SetLoop
SetLoop(l) ==
    /\ loop # l
    /\ loop' = l
    /\ UNCHANGED <<readFrameErrorHandler, errorEvents, rf>>
    /\ UNCHANGED <<reVars, lpVars, emVars, lgVars, panicked>>

\* Demuxer.readFrame when ReadFrame returns a packet
ReadFramePkt ==
    /\ pc = "read"
    /\ ReadPkt

\* Demuxer.readFrame when ReadFrame fails with err, which is EOF only at the end
\* of the input, and the rest of the iteration of the read loop; seekOk tells
\* whether a seek would succeed and h is what the custom handler would return
ReadFrameFails(err, seekOk, h) ==
    /\ pc = "read"
    /\ ~stopped
    /\ rf.count < MaxReadErrors
    /\ err = "eof" <=> pos > Len(file)
    /\ loopingPath(loop, err) => loops < MaxLoops
    /\ LET r == readFrameError(loop, emulateRate, readFrameErrorHandler, err, seekOk, h)
       IN /\ lss' = IF r.looping THEN looping(lss, pd) ELSE lss
          /\ pd' = IF r.looping THEN [x \in Streams |-> pdFlush(pd[x]).pd] ELSE pd
          /\ loops' = IF r.looping THEN loops + 1 ELSE loops
          /\ pos' = IF r.looping /\ seekOk THEN 1 ELSE pos
          /\ step' = IF r.looping THEN Idle("looping") ELSE step
          /\ cfs' = IF r.eof
                    THEN [x \in Streams |->
                            chanAdd(cfs[x], ETask("stop", 0, 0), ectxDone(x))]
                    ELSE cfs
          /\ errorEvents' = errorEvents \o r.emitted
          /\ pc' = IF r.stop THEN "wait" ELSE afterReadFrame
          /\ rf' = [count |-> rf.count + 1, err |-> err, loop |-> loop, seekOk |-> seekOk,
                    h |-> h, looping |-> r.looping, eof |-> r.eof,
                    consulted |-> r.consulted, handled |-> r.handled,
                    emitted |-> r.emitted, stop |-> r.stop]
    /\ UNCHANGED <<file, timeBaseDen, durationDen, restarts, emitted, stopped>>
    /\ UNCHANGED <<now, ctxDone, emulateRate, bufferDuration, sleepUntil, pktsRead, lastAt,
                   eps, est, cancelled, taken, delivered, pktRefBudget, handled>>
    /\ UNCHANGED <<loop, readFrameErrorHandler>>
    /\ UNCHANGED <<reVars, lgVars, panicked>>

(***************************************************************************)
(* Event logger with message merging                                       *)
(*                                                                         *)
(* A pattern is merged from its first occurrence until the background task *)
(* finds its window expired, at the second time it wakes after that first  *)
(* occurrence at the latest, or until Close.                               *)
(***************************************************************************)
\* number of calls of the logging functions
MaxCalls == 4
\* number of times the background task wakes
MaxLogTicks == 2

\* the calls explored, taken from TestEventLogger: Errorf("errorf-%d", arg),
\* Debugk("debugk-%d", "debugk-<arg>"), Errorf("msg") and Infof("msg"); text is
\* the format up to its verb, msg the second argument of the keyed form
LogCalls ==
    {[level |-> "error", keyed |-> FALSE, text |-> "errorf-", verb |-> TRUE,
      arg |-> a, msg |-> ""] : a \in {1, 3}}
    \cup {[level |-> "debug", keyed |-> TRUE, text |-> "debugk-", verb |-> TRUE,
           arg |-> 0, msg |-> "debugk-" \o ToString(a)] : a \in 1..3}
    \cup {[level |-> l, keyed |-> FALSE, text |-> "msg", verb |-> FALSE,
           arg |-> 0, msg |-> ""] : l \in {"error", "info"}}

\* the format string of a call, as written
formatOf(c) == c.text \o (IF c.verb THEN "%d" ELSE "")

\* fmt.Sprintf of the format and the argument of a call
Sprintf(c) == c.text \o (IF c.verb THEN ToString(c.arg) ELSE "")

\* the pattern of a keyed call taken from its message
pattern_KeyedByMessage(c) == <<c.level, IF c.keyed THEN c.msg ELSE Sprintf(c)>>

\* the pattern of a call without its level
pattern_LevelIgnored(c) == <<"any", IF c.keyed THEN formatOf(c) ELSE Sprintf(c)>>

\* the identity of the pattern of a call: its level with the expanded message,
\* or with the format string for the keyed form
pattern(c) == <<c.level, IF c.keyed THEN formatOf(c) ELSE Sprintf(c)>>

\* the concrete message of a call
message(c) == IF c.keyed THEN c.msg ELSE Sprintf(c)

\* every call forwarded
forwards_Always(m, c) == TRUE

\* whether a call is forwarded to the sink: it is the first of its pattern
forwards(m, c) == pattern(c) \notin DOMAIN m

\* the summary with the total count in place of the count of repetitions
summary_TotalCount(p, count) ==
    IF count = 1 THEN "astiencoder: pattern repeated once: " \o p[2]
    ELSE "astiencoder: pattern repeated " \o ToString(count) \o " times: " \o p[2]

\* the summary line of a pattern seen count times
summary(p, count) ==
    LET extra == count - 1
    IN IF extra = 1 THEN "astiencoder: pattern repeated once: " \o p[2]
       ELSE "astiencoder: pattern repeated " \o ToString(extra) \o " times: " \o p[2]

\* mockedLogger.Print and Printf: the line is counted
print(m, line) ==
    IF line \in DOMAIN m THEN [m EXCEPT ![line] = @ + 1] ELSE m @@ (line :> 1)

\* the sink after the purge of the patterns ps of the merged patterns m: one
\* summary for each pattern seen at least twice
RECURSIVE purge(_, _, _)
purge(sink, m, ps) ==
    IF ps = {} THEN sink
    ELSE LET p == CHOOSE q \in ps : TRUE
         IN purge(IF m[p].count >= 2 THEN print(sink, summary(p, m[p].count)) ELSE sink,
                  m, ps \ {p})

\* the patterns a purge takes with the patterns being merged left out when
\* their window has not expired, also on Close
expired_NeverAll(m, all) == {p \in DOMAIN m : m[p].old}

\* the patterns a purge takes: every pattern on Close, and otherwise the
\* patterns whose window has expired
expired(m, all) == IF all THEN DOMAIN m ELSE {p \in DOMAIN m : m[p].old}

\* the merged patterns m without the patterns ps
without(m, ps) == [p \in DOMAIN m \ ps |-> m[p]]

\* the event logger after newEventLogger, WithMessageMerging and Start
LGInit ==
    /\ merged = <<>>
    /\ msgs = <<>>
    /\ closed = FALSE
    /\ calls = 0
    /\ logTicks = 0
    /\ purged = 0
    /\ logged = [op |-> "init", call |-> 0]

\* no event logger: the state of these variables in the other runs
LGNone ==
    /\ merged = <<>>
    /\ msgs = <<>>
    /\ closed = TRUE
    /\ calls = 0
    /\ logTicks = 0
    /\ purged = 0
    /\ logged = [op |-> "init", call |-> 0]

\* a call of Debugk, Errorf, Infof, ...: the first occurrence of a pattern is
\* forwarded, a later one is counted
Log(c) ==
    /\ ~closed
    /\ calls < MaxCalls
    /\ calls' = calls + 1
    /\ msgs' = IF forwards(merged, c) THEN print(msgs, message(c)) ELSE msgs
    /\ merged' = IF pattern(c) \in DOMAIN merged
                 THEN [merged EXCEPT ![pattern(c)].count = @ + 1]
                 ELSE merged @@ (pattern(c) :> [count |-> 1, old |-> FALSE])
    /\ logged' = [op |-> "call", call |-> c]
    /\ UNCHANGED <<closed, logTicks, purged>>
    /\ UNCHANGED <<reVars, lpVars, emVars, rdVars, panicked>>

\* the background task wakes: the patterns whose window has expired are purged
LogTick ==
    /\ ~closed
    /\ logTicks < MaxLogTicks
    /\ logTicks' = logTicks + 1
    /\ LET ps == expired(merged, FALSE)
       IN /\ msgs' = purge(msgs, merged, ps)
          /\ merged' = [p \in DOMAIN merged \ ps |-> [merged[p] EXCEPT !.old = TRUE]]
          /\ purged' = purged + Cardinality(ps)
    /\ logged' = [op |-> "tick", call |-> 0]
    /\ UNCHANGED <<closed, calls>>
    /\ UNCHANGED <<reVars, lpVars, emVars, rdVars, panicked>>

\* EventLogger.Close: every pattern is purged
LogClose ==
    /\ ~closed
    /\ closed' = TRUE
    /\ LET ps == expired(merged, TRUE)
       IN /\ msgs' = purge(msgs, merged, ps)
          /\ merged' = without(merged, ps)
          /\ purged' = purged + Cardinality(ps)
    /\ logged' = [op |-> "close", call |-> 0]
    /\ UNCHANGED <<calls, logTicks>>
    /\ UNCHANGED <<reVars, lpVars, emVars, rdVars, panicked>>

(***************************************************************************)
(* Specification of the rate enforcer                                      *)
(***************************************************************************)
\* the default configuration: the "previous" filler, and no Frame.Ref fails
Init == REInit /\ filler = "previous" /\ refBudget = 0 /\ LPNone /\ EMNone /\ LGNone /\ RDNone /\ panicked = FALSE

\* a static frame filler built by NewFrameRateEnforcerFiller, and no Frame.Ref fails
InitFrame == REInit /\ filler = "frame" /\ refBudget = 0 /\ LPNone /\ EMNone /\ LGNone /\ RDNone /\ panicked = FALSE

\* the "previous" filler, and Frame.Ref may fail
InitRef == REInit /\ filler = "previous" /\ refBudget = MaxRefErrors /\ LPNone /\ EMNone /\ LGNone /\ RDNone /\ panicked = FALSE

\* the operations when every Frame.Ref succeeds
Next ==
    \/ \E node \in Nodes : Switch(node)
    \/ \E node \in Nodes : HandleFrame(node, TRUE)
    \/ TickWarmup
    \/ Tick(TRUE)

\* the operations when a Frame.Ref may fail
NextRef ==
    \/ \E node \in Nodes : Switch(node)
    \/ \E node \in Nodes : HandleFrameRefError(node)
    \/ \E node \in Nodes, refOk \in BOOLEAN : HandleFrame(node, refOk)
    \/ TickWarmup
    \/ \E refOk \in BOOLEAN : Tick(refOk)

Spec == Init /\ [][Next]_vars

SpecFrame == InitFrame /\ [][Next]_vars

SpecRef == InitRef /\ [][NextRef]_vars

(***************************************************************************)
(* Specification of the rate enforcer of src/libav/rate_enforcer.go        *)
(***************************************************************************)
\* NewRateEnforcer of src/libav with Delay 0, 1 or 2
InitLibav ==
    /\ REInit /\ filler = "previous" /\ refBudget = 0
    /\ ~adaptSlotsToIncomingFrames
    /\ LPNone /\ EMNone /\ LGNone /\ RDNone /\ panicked = FALSE

NextLibav ==
    \/ \E node \in Nodes : Switch(node)
    \/ \E node \in Nodes : LibavHandleFrame(node)
    \/ LibavTickWarmup
    \/ LibavTick

SpecLibav == InitLibav /\ [][NextLibav]_vars

(***************************************************************************)
(* Specification of the demuxer read loop with its looper                  *)
(***************************************************************************)
\* a demuxer that loops, on any of the inputs; the rate enforcer is not run
InitLooper ==
    /\ \E f \in Files :
            LPInit(f, [x \in Streams |-> StreamTimeBaseDen(x)], nanosecondRationalDen)
    /\ REInit /\ filler = "previous" /\ refBudget = 0
    /\ ~adaptSlotsToIncomingFrames /\ slotsCount = 1
    /\ EMNone /\ LGNone /\ RDNone /\ panicked = FALSE

NextLooper ==
    \/ ReadPkt
    \/ Looping
    \/ Stop
    \/ Restart

SpecLooper == InitLooper /\ [][NextLooper]_vars

(***************************************************************************)
(* Specification of the demuxer read loop on the two-stream example        *)
(***************************************************************************)
\* stream 0 (A) has the time base 1/4, stream 1 (B) the time base 1/2
ExampleTimeBaseDen(s) == IF s = 0 THEN 4 ELSE 2

\* the PTS of the packets of the two streams; their DTS are their PTS
ExamplePts(s) == IF s = 0 THEN <<0, 1, 2, 3>> ELSE <<0, 2, 4>>

\* the packets of a stream of the example
ExamplePkts(s) ==
    [k \in 1..Len(ExamplePts(s)) |->
        [s |-> s, dts |-> ExamplePts(s)[k], pts |-> ExamplePts(s)[k]]]

\* the example read one stream after the other, in either order
ExampleFiles == {ExamplePkts(0) \o ExamplePkts(1), ExamplePkts(1) \o ExamplePkts(0)}

\* the durations of the example are whole milliseconds and reach several
\* seconds: they are counted in milliseconds, which keeps every conversion exact
\* and every value within the integers of the model checker
ExampleDurationDen == nanosecondRationalDen \div 1000000

InitExample ==
    /\ \E f \in ExampleFiles :
            LPInit(f, [x \in Streams |-> ExampleTimeBaseDen(x)], ExampleDurationDen)
    /\ REInit /\ filler = "previous" /\ refBudget = 0
    /\ ~adaptSlotsToIncomingFrames /\ slotsCount = 1
    /\ EMNone /\ LGNone /\ RDNone /\ panicked = FALSE

SpecExample == InitExample /\ [][NextLooper]_vars

(***************************************************************************)
(* Specification of the demuxer with its rate emulators                    *)
(***************************************************************************)
\* a demuxer with or without rate emulation, no Packet.Ref fails; the looper and
\* the rate enforcer are not run
InitEmulator ==
    /\ \E emulate \in BOOLEAN, b \in BufferDurations : EMInit(emulate, b, 0)
    /\ REInit /\ filler = "previous" /\ refBudget = 0
    /\ ~adaptSlotsToIncomingFrames /\ slotsCount = 1
    /\ LPNone /\ LGNone /\ RDNone /\ panicked = FALSE

NextEmulator ==
    \/ Cancel
    \/ TimePasses
    \/ \E s \in Streams : DirectDispatch(s)
    \/ \E s \in Streams : \E d \in PreviousDurations(s) : EmulatorHandlePkt(s, d, TRUE)
    \/ HandlePktReturns
    \/ ReadEof
    \/ \E s \in Streams : TaskStarts(s)
    \/ \E s \in Streams : TaskWakes(s)
    \/ \E s \in Streams : StartReturns(s)
    \/ StartBodyReturns

SpecEmulator == InitEmulator /\ [][NextEmulator]_vars

(***************************************************************************)
(* Specification of the demuxer with its rate emulators, started again     *)
(***************************************************************************)
\* as InitEmulator, with a demuxer that can be started again
InitEmulatorRestart ==
    /\ \E emulate \in BOOLEAN, b \in BufferDurations : EMInit(emulate, b, 0)
    /\ REInit /\ filler = "previous" /\ refBudget = 0
    /\ ~adaptSlotsToIncomingFrames /\ slotsCount = 1
    /\ \E f \in {<<>>} :
            LPInit(f, [x \in Streams |-> StreamTimeBaseDen(x)], nanosecondRationalDen)
    /\ LGNone /\ RDNone /\ panicked = FALSE

NextEmulatorRestart ==
    \/ NextEmulator
    \/ EmulatorRestart

SpecEmulatorRestart == InitEmulatorRestart /\ [][NextEmulatorRestart]_vars

(***************************************************************************)
(* Specification of the demuxer with its rate emulators and its pool       *)
(***************************************************************************)
\* a demuxer with rate emulation, no Packet.Ref fails, every packet object is in
\* the pool; the looper and the rate enforcer are not run
InitPool ==
    /\ \E b \in BufferDurations : EMInit(TRUE, b, 0)
    /\ REInit /\ filler = "previous" /\ refBudget = 0
    /\ ~adaptSlotsToIncomingFrames /\ slotsCount = 1
    /\ LPNone /\ LGNone /\ RDNone /\ panicked = FALSE

NextPool ==
    \/ Cancel
    \/ TimePasses
    \/ \E s \in Streams : \E d \in PreviousDurations(s) : \E p \in PoolPkts :
            PooledHandlePkt(s, d, p)
    \/ HandlePktReturns
    \/ ReadEof
    \/ \E s \in Streams : PooledTaskStarts(s)
    \/ \E s \in Streams : PooledTaskWakes(s)
    \/ \E s \in Streams : PooledTaskUnstores(s)
    \/ \E s \in Streams : PooledStartReturns(s)
    \/ StartBodyReturns

SpecPool == InitPool /\ [][NextPool]_vars

(***************************************************************************)
(* Specification of the demuxer read loop when ReadFrame fails             *)
(***************************************************************************)
\* a demuxer on any of the inputs with at most one stream of two packets, looping or not, with
\* or without rate emulation, with or without a custom error handler; the goroutines of the
\* rate emulators and the rate enforcer are not run, and the context of the
\* demuxer is not cancelled
InitReader ==
    /\ \E f \in {g \in Files : Len(g) <= Cardinality(Streams) + 1} :
            LPInit(f, [x \in Streams |-> StreamTimeBaseDen(x)], nanosecondRationalDen)
    /\ \E emulate \in BOOLEAN : EMInit(emulate, 0, 0)
    /\ \E l \in BOOLEAN, handler \in {"nil", "set"} : RDInit(l, handler)
    /\ REInit /\ filler = "previous" /\ refBudget = 0
    /\ ~adaptSlotsToIncomingFrames /\ slotsCount = 1
    /\ LGNone /\ panicked = FALSE

NextReader ==
    \/ \E l \in BOOLEAN : SetLoop(l)
    \/ ReadFramePkt
    \/ \E err \in ReadErrors, seekOk \in BOOLEAN, h \in HandlerResults :
            ReadFrameFails(err, seekOk, h)

SpecReader == InitReader /\ [][NextReader]_vars

(***************************************************************************)
(* Specification of the event logger                                       *)
(***************************************************************************)
\* an event logger that merges messages; nothing else is run
InitLogger ==
    /\ LGInit
    /\ REInit /\ filler = "previous" /\ refBudget = 0
    /\ ~adaptSlotsToIncomingFrames /\ slotsCount = 1
    /\ LPNone /\ EMNone /\ RDNone /\ panicked = FALSE

NextLogger ==
    \/ \E c \in LogCalls : Log(c)
    \/ LogTick
    \/ LogClose

SpecLogger == InitLogger /\ [][NextLogger]_vars

(***************************************************************************)
(* Properties of the rate enforcer                                         *)
(***************************************************************************)
\* the last operation was a tick that ran past the warmup test
WarmTick == last.op = "tick" /\ last.warm

\* the frames of a sequence of puts
PutFrames(ps) == {ps[k].f : k \in DOMAIN ps}

\* C1 as stated: once the slot list has reached slotsCount, every tick dispatches
\* a frame, the item of slot 0 or the frame of the filler
C1_EveryWarmTickDispatches == WarmTick => last.disp.f # NoFrame

\* C1, amended: a warmed-up tick dispatches at most one frame, the item of slot 0
\* or the frame of the filler, and it dispatches none exactly when slot 0 has no
\* item and the filler has no frame to give
C1_WarmTickDispatch ==
    /\ WarmTick =>
          /\ last.disp.f = NoFrame <=> (last.filled /\ fillerF = NoFrame)
          /\ last.filled => last.disp = (IF fillerF = NoFrame THEN NoItem
                                         ELSE Fill(filler, fillerF, fillerPts, fillerN))
          /\ ~last.filled => last.disp.n \in Nodes
    /\ (last.op = "tick" /\ ~last.warm) => last.disp.f = NoFrame

\* a warmed-up tick has dispatched the frame of the filler
C1_Witness == WarmTick /\ last.filled /\ last.disp.f # NoFrame

\* C2: the ticks counted in the filled-rate stat plus the ticks that dispatched
\* the item of slot 0 are the ticks run past the warmup
C2_FillAccounting == statFilledRate + nodeSourced = warmTicks

\* ticks of both kinds have run
C2_Witness == statFilledRate >= 1 /\ nodeSourced >= 1 /\ warmTicks >= 3

\* C3: with Y the desired node since the last Switch, once the first Y frame has
\* been accepted and slotsCount further ticks have run, every frame a tick
\* dispatches comes from Y
C3_DispatchFromDesired ==
    (last.op = "tick" /\ last.disp.f # NoFrame /\ sinceAccept - 1 >= slotsCount)
        => last.disp.n = n

\* the same with adaptSlotsToIncomingFrames off
C3_DispatchFromDesiredNoAdapt ==
    ~adaptSlotsToIncomingFrames => C3_DispatchFromDesired

\* C4: a SwitchedOut event with payload X is preceded by a SwitchedIn event with
\* payload X emitted before the tick of the SwitchedOut
C4_SwitchedInBeforeOut ==
    last.evOut # Nil =>
        /\ switchedInAt[last.evOut] # -1
        /\ switchedInAt[last.evOut] < ticks

\* C5: a tick emits SwitchedOut(n) exactly when it dispatches a frame whose node n
\* is not nil and differs from the payload of the previous SwitchedOut event; so
\* the node of every dispatched frame is the payload of the latest SwitchedOut,
\* and no two consecutive SwitchedOut events carry the same node
C5_SwitchedOut ==
    /\ last.op = "tick" =>
          /\ last.evOut # Nil <=>
                /\ last.disp.f # NoFrame
                /\ last.disp.n # Nil
                /\ last.disp.n # (IF last.evOut # Nil
                                  THEN (IF Len(switchedOut) > 1
                                        THEN switchedOut[Len(switchedOut) - 1] ELSE Nil)
                                  ELSE (IF switchedOut # <<>>
                                        THEN switchedOut[Len(switchedOut)] ELSE Nil))
          /\ last.evOut # Nil => last.evOut = last.disp.n
          /\ (last.disp.f # NoFrame /\ last.disp.n # Nil) =>
                (switchedOut # <<>> /\ switchedOut[Len(switchedOut)] = last.disp.n)
    /\ last.op # "tick" => last.evOut = Nil
    /\ \A k \in 1..(Len(switchedOut) - 1) : switchedOut[k] # switchedOut[k + 1]

\* the dispatch has gone from one node to another, with a SwitchedOut for each
C5_Witness == Len(switchedOut) >= 2 /\ last.evOut # Nil

\* pts is in the range of the slot s
InRange(s, pts) == s.ptsMin <= pts /\ s.ptsMax > pts

\* C6 as stated: every two consecutive slots are contiguous
C6_Contiguous ==
    \A k \in 1..(Len(slots) - 1) :
        (~slots[k].nil /\ ~slots[k + 1].nil) => slots[k + 1].ptsMin = slots[k].ptsMax

\* C6, amended: every slot is SlotWidth wide, and a slot starts where the slot
\* before it ends unless HandleFrame rebuilt it at the PTS of an incoming frame;
\* a slot that follows a nil slot was built by HandleFrame
C6_ContiguousUnlessAnchored ==
    /\ \A k \in DOMAIN slots :
          ~slots[k].nil => slots[k].ptsMax - slots[k].ptsMin = SlotWidth
    /\ \A k \in 1..(Len(slots) - 1) :
          /\ (~slots[k].nil /\ ~slots[k + 1].nil /\ ~slots[k + 1].anchored)
                => slots[k + 1].ptsMin = slots[k].ptsMax
          /\ (slots[k].nil /\ ~slots[k + 1].nil) => slots[k + 1].anchored

\* a tick has appended the next() of a slot HandleFrame built
C6_Witness ==
    /\ last.op = "tick"
    /\ Len(slots) = 2
    /\ ~slots[1].nil /\ slots[1].anchored
    /\ ~slots[2].nil /\ ~slots[2].anchored

\* the frames held by the slots and the buffer
HeldFrames ==
    {slots[k].i.f : k \in {j \in DOMAIN slots : ~slots[j].nil /\ slots[j].i.f # NoFrame}}
        \cup {buf[k].f : k \in DOMAIN buf}

\* C7: a tick that finds no item in slot 0 dispatches what the filler returns,
\* adds one to the filled-rate stat, leaves the filler's frame with the filler and
\* puts no dispatched frame; a tick that finds an item puts that item's frame and
\* no other dispatched frame; the filler's frame is never put, and no frame is
\* put twice
C7_FillerFrameNotPut ==
    /\ [](/\ ~doublePut
          /\ (filler = "previous" /\ fillerF # NoFrame) => fillerF \in live
          /\ fillerF \notin HeldFrames)
    /\ [][LET head == distribute(slots, buf).slots[1]
               item == ~head.nil /\ head.i.f # NoFrame
               dispatched == {last'.puts[k].f :
                                k \in {j \in DOMAIN last'.puts :
                                          last'.puts[j].why = "dispatched"}}
           IN (last'.op = "tick" /\ last'.warm /\ ticks' = ticks + 1) =>
                 /\ fillerF \notin PutFrames(last'.puts)
                 /\ ~item =>
                       /\ last'.filled
                       /\ statFilledRate' = statFilledRate + 1
                       /\ last'.disp = (IF fillerF = NoFrame THEN NoItem
                                        ELSE Fill(filler, fillerF, fillerPts, fillerN))
                       /\ fillerF' = fillerF
                       /\ dispatched = {}
                 /\ item =>
                       /\ ~last'.filled
                       /\ statFilledRate' = statFilledRate
                       /\ last'.disp = head.i
                       /\ dispatched = {head.i.f}
                       /\ fillerF' # head.i.f
          ]_vars

\* two ticks in a row have dispatched the frame the filler holds
C7_Witness ==
    /\ WarmTick /\ last.filled
    /\ statFilledRate >= 2
    /\ fillerF # NoFrame /\ last.disp.f = fillerF /\ fillerF \in live

\* the items in the range of the slot s: the one it holds and the buffered ones
ItemsInRange(s, b) ==
    (IF s.i.f # NoFrame THEN {s.i} ELSE {})
        \cup {b[j] : j \in {x \in DOMAIN b : b[x].n = s.n /\ InRange(s, b[x].pts)}}

\* the earliest-arrived item of a set: frames are numbered in arrival order
Earliest(items) == CHOOSE it \in items : \A other \in items : it.f <= other.f

C9_DtsNonDecreasing ==
    (step.op = "pkt" /\ ~step.first) => step.dts >= step.prevDts

\* C10: the looper keeps the PTS - DTS offset of every packet; it shifts both
\* timestamps by the restampDelta of the stream when that is > 0 and leaves both
\* as they are otherwise
C10_OffsetPreserved ==
    step.op = "pkt" =>
        /\ step.pts - step.dts = step.origPts - step.origDts
        /\ step.restampDelta > 0 =>
              (step.dts = step.origDts + step.restampDelta
                 /\ step.pts = step.origPts + step.restampDelta)
        /\ ~(step.restampDelta > 0) =>
              (step.dts = step.origDts /\ step.pts = step.origPts)

\* a packet whose PTS is after its DTS has been restamped
C10_Witness ==
    step.op = "pkt" /\ step.restampDelta > 0 /\ step.origPts > step.origDts


\* the restamped duration a stream has accumulated, in time.Duration units
restampedDuration(x) == RescaleQ(lss[x].restampDelta, timeBaseDen[x], durationDen)

\* the larger restampRemainder of two streams
maxRemainder(a, b) ==
    IF lss[a].restampRemainder >= lss[b].restampRemainder
    THEN lss[a].restampRemainder ELSE lss[b].restampRemainder

\* C11 as stated: after any number of calls of looping, the restamped durations
\* two streams have accumulated, in nanoseconds, differ by at most the larger of
\* their restampRemainder
C11_AlignedWithinRemainder ==
    step.op = "looping" =>
        \A a \in Streams, b \in Streams :
            restampedDuration(a) - restampedDuration(b) <= maxRemainder(a, b)

\* C11 amended: after K calls of looping with no reset of the looper in between,
\* the restamped durations two streams have accumulated, in nanoseconds, differ
\* by at most the larger of their restampRemainder plus the rounding of the
\* conversions, 2K + 1 nanoseconds
C11_AlignedWithinRemainderAndRounding ==
    (step.op = "looping" /\ restarts = 0) =>
        \A a \in Streams, b \in Streams :
            restampedDuration(a) - restampedDuration(b)
                <= maxRemainder(a, b) + 2 * loops + 1

\* C11 witness: looping was called twice with no reset, a stream carries a
\* remainder, and two streams are further apart than the larger remainder
C11_Witness ==
    /\ step.op = "looping" /\ restarts = 0 /\ loops = 2
    /\ \E a \in Streams, b \in Streams :
            /\ maxRemainder(a, b) > 0
            /\ restampedDuration(a) - restampedDuration(b) > maxRemainder(a, b)


\* the first looping of a run that was never stopped has just returned
FirstLooping == step.op = "looping" /\ loops = 1 /\ restarts = 0

\* C12 as stated: on the two-stream example the first looping computes the
\* duration 1 s for A, 1.5 s for B and the maximum 1.5 s, and A's restampDelta
\* grows by its duration of 4 ticks plus the 2 ticks that make 0.5 s
C12_ExampleAsStated ==
    FirstLooping =>
        /\ lss[0].durationD = durationDen
        /\ 2 * lss[1].durationD = 3 * durationDen
        /\ 2 * loopingMaxDuration(lss) = 3 * durationDen
        /\ lss[0].restampDelta = 4 + 2

\* C12 amended: on the two-stream example the first looping computes the
\* duration 1 s for A, 3 s for B and the maximum 3 s, and A's restampDelta
\* grows by its duration of 4 ticks plus the 8 ticks that make the 2 s gap
C12_Example ==
    FirstLooping =>
        /\ lss[0].durationD = durationDen
        /\ lss[1].durationD = 3 * durationDen
        /\ loopingMaxDuration(lss) = 3 * durationDen
        /\ lss[0].restampDelta = 4 + 8
        /\ lss[1].restampDelta = 6

\* C12 witness: the first looping of the example has returned, A shifted
C12_Witness ==
    /\ FirstLooping
    /\ file \in ExampleFiles
    /\ lss # [x \in Streams |-> newDemuxerLooperStream]


\* C13: the reset of the looper when the read loop ends sets duration,
\* lastDuration and restampRemainder of every stream to zero and leaves its
\* restampDelta as it was, a restart leaves the looper as it is, and every
\* packet read is shifted by the restampDelta its stream has at that time: so a
\* packet read after a restart is shifted by the delta accumulated before
C13_ResetKeepsRestampDelta ==
    [][/\ step'.op = "stop" =>
            \A x \in Streams :
                /\ lss'[x].duration = 0
                /\ lss'[x].lastDuration = 0
                /\ lss'[x].restampRemainder = 0
                /\ lss'[x].restampDelta = lss[x].restampDelta
       /\ step'.op = "start" => lss' = lss
       /\ step'.op = "pkt" =>
            /\ step'.dts = step'.origDts + lss[step'.s].restampDelta
            /\ lss'[step'.s].restampDelta = lss[step'.s].restampDelta]_vars

\* C13 witness: a packet read after a restart has been shifted
C13_Witness ==
    step.op = "pkt" /\ restarts > 0 /\ step.restampDelta > 0
        /\ step.dts = step.origDts + step.restampDelta


(***************************************************************************)
(* Properties of the demuxer rate emulator                                 *)
(***************************************************************************)
\* C14: when a packet is handed to the rate emulator of its stream, its release
\* time is lastAt, the release time of the packet handed before it (the time of
\* the call for the first packet), plus the rescaled previousDuration when that
\* is positive and plus nothing otherwise; it becomes lastAt and the release time
\* of the function added to the chan; nothing else changes lastAt, which never
\* decreases
C14_Pacing ==
    [][\A x \in Streams :
        /\ lastAt'[x] >= lastAt[x]
        /\ IF emulateRate /\ pktsRead'[x] # pktsRead[x]
           THEN LET d == handled'.previousDuration
                    prev == IF lastAt[x] = 0 THEN now ELSE lastAt[x]
                IN /\ handled'.pktAt - prev
                        = IF d > 0
                          THEN RescaleQ(d, EmulatorTimeBaseDen(x), nanosecondRationalDen)
                          ELSE 0
                   /\ lastAt'[x] = handled'.pktAt
                   /\ ~ectxDone(x) =>
                        cfs'[x][Len(cfs'[x])] = ETask("pkt", pktsRead'[x], handled'.pktAt)
           ELSE lastAt'[x] = lastAt[x]]_vars

\* C14 witness: a packet with a positive previousDuration was handed to an
\* emulator after the release time of the packet before it had passed
C14_Witness ==
    /\ handled.op = "handlePkt" /\ ~handled.first
    /\ handled.previousDuration > 0
    /\ handled.calledAt > handled.prevAt
    /\ lastAt[handled.s] = handled.pktAt

\* C15: unless the context was cancelled during its sleep, handlePkt returns at a
\* time when lastAt is at most bufferDuration ahead of the clock; it sleeps when
\* lastAt is further ahead than that at the call, and then for exactly the excess
C15_Backpressure ==
    (handled.op = "handlePkt" /\ handled.returned /\ ~handled.cancelled) =>
        LET excess == (handled.pktAt - handled.calledAt) - bufferDuration
        IN /\ lastAt[handled.s] = handled.pktAt
           /\ handled.pktAt - handled.retAt <= bufferDuration
           /\ handled.slept <=> excess > 0
           /\ handled.retAt - handled.calledAt = IF excess > 0 THEN excess ELSE 0

\* C15 witness: handlePkt has slept for the excess and returned, the context not
\* cancelled
C15_Witness ==
    /\ handled.op = "handlePkt" /\ handled.returned /\ ~handled.cancelled
    /\ handled.slept
    /\ handled.retAt > handled.calledAt
    /\ ~ctxDone


\* C16: once the function Start gave to BaseNode.Start has returned, every
\* emulator goroutine is done and every packet an emulator got from the pool has
\* been put back: no packet is taken, every ps is empty and every chan is empty
C16_AllPacketsReturned ==
    pc = "done" =>
        /\ \A x \in Streams : est[x] = "done" /\ eps[x] = {} /\ cfs[x] = <<>>
        /\ taken = {}


\* C17: the packets of a stream are dispatched in the order in which the demuxer
\* read them, without rate emulation and with it
C17_DispatchedInReadOrder ==
    \A x \in Streams :
        \A i \in 1..Len(delivered[x]), j \in 1..Len(delivered[x]) :
            i < j => delivered[x][i] < delivered[x][j]

\* C17 witness: the emulator of a stream has released two packets, the second of
\* them after a sleep
C17_Witness ==
    /\ emulateRate
    /\ \E x \in Streams : Len(delivered[x]) >= 2 /\ lastAt[x] > ClockPeriod


(***************************************************************************)
(* Properties of the event logger                                          *)
(***************************************************************************)
\* the number of times a line was written to the sink
written(m, line) == IF line \in DOMAIN m THEN m[line] ELSE 0

\* the number of lines written to the sink
RECURSIVE total(_, _)
total(m, lines) ==
    IF lines = {} THEN 0
    ELSE LET l == CHOOSE x \in lines : TRUE IN m[l] + total(m, lines \ {l})

\* C18: a call whose pattern is not being merged writes its concrete message to
\* the sink, once, and starts the count of the pattern at 1; a call whose
\* pattern is being merged writes nothing and adds one to the count
C18_FirstForwardedRestCounted ==
    [][logged'.op = "call" =>
        LET c == logged'.call
            p == <<c.level, IF c.keyed THEN formatOf(c) ELSE Sprintf(c)>>
            concrete == IF c.keyed THEN c.msg ELSE Sprintf(c)
        IN IF p \notin DOMAIN merged
           THEN /\ written(msgs', concrete) = written(msgs, concrete) + 1
                /\ total(msgs', DOMAIN msgs') = total(msgs, DOMAIN msgs) + 1
                /\ merged'[p].count = 1
           ELSE /\ msgs' = msgs
                /\ merged'[p].count = merged[p].count + 1
                /\ \A q \in DOMAIN merged \ {p} : merged'[q] = merged[q]]_vars

\* C18 witness: a call has repeated a pattern that was forwarded in its window
C18_Witness ==
    /\ logged.op = "call"
    /\ LET c == logged.call
       IN /\ pattern(c) \in DOMAIN merged
          /\ merged[pattern(c)].count >= 2
          /\ written(msgs, message(c)) = 1


\* the summary line the claim describes for a pattern seen count times
expectedSummary(p, count) ==
    IF count - 1 = 1 THEN "astiencoder: pattern repeated once: " \o p[2]
    ELSE "astiencoder: pattern repeated " \o ToString(count - 1) \o " times: " \o p[2]

\* C19: when the background task or Close purges patterns, each purged pattern
\* seen at least twice adds exactly one summary line to the sink, "repeated once"
\* when it was seen twice and "repeated N times" with N one less than its count
\* otherwise, a pattern seen once adds nothing, and nothing else is written;
\* when every pattern seen so far is purged at once, the sink has received as
\* many lines as there are patterns plus patterns seen at least twice
C19_OneSummaryPerRepeatedPattern ==
    [][logged'.op \in {"tick", "close"} =>
        LET gone == DOMAIN merged \ DOMAIN merged'
            repeated == {p \in gone : merged[p].count >= 2}
        IN /\ \A line \in DOMAIN msgs' :
                written(msgs', line) - written(msgs, line)
                    = Cardinality({p \in repeated :
                                      expectedSummary(p, merged[p].count) = line})
           /\ (purged = 0 /\ gone = DOMAIN merged) =>
                total(msgs', DOMAIN msgs')
                    = Cardinality(DOMAIN merged) + Cardinality(repeated)]_vars

\* C19 witness: Close has purged a pattern seen three times and a pattern seen
\* once, in their first window
C19_Witness ==
    /\ logged.op = "close" /\ purged = 2 /\ logTicks = 0
    /\ written(msgs, "astiencoder: pattern repeated 2 times: errorf-3") = 1
    /\ written(msgs, "errorf-3") = 1
    /\ written(msgs, "errorf-1") = 1
    /\ total(msgs, DOMAIN msgs) = 3

\* C20: a keyed call whose format string is being merged at its level writes
\* nothing, whatever its key; one whose format string is not being merged writes
\* its key; and no summary names a key: the summary of a keyed pattern names the
\* format string
C20_KeyedPatternIsTheFormat ==
    /\ [](\A a \in 1..3 : \A line \in DOMAIN msgs :
            /\ line # "astiencoder: pattern repeated once: debugk-" \o ToString(a)
            /\ line # "astiencoder: pattern repeated 2 times: debugk-" \o ToString(a))
    /\ [][(logged'.op = "call" /\ logged'.call.keyed) =>
            LET c == logged'.call
            IN IF <<c.level, formatOf(c)>> \in DOMAIN merged
               THEN msgs' = msgs
               ELSE written(msgs', c.msg) = written(msgs, c.msg) + 1]_vars
    /\ [][logged'.op \in {"tick", "close"} =>
            \A p \in DOMAIN merged \ DOMAIN merged' :
                (p[1] = "debug" /\ merged[p].count = 3) =>
                    /\ p[2] = "debugk-%d"
                    /\ written(msgs', "astiencoder: pattern repeated 2 times: debugk-%d")
                        = written(msgs, "astiencoder: pattern repeated 2 times: debugk-%d") + 1]_vars

\* C20 witness: three Debugk calls on "debugk-%d" with three keys in one window
\* have written the first key once and one summary naming the format string
C20_Witness ==
    /\ logged.op \in {"tick", "close"}
    /\ calls = 3
    /\ \E a \in 1..3 :
        /\ written(msgs, "debugk-" \o ToString(a)) = 1
        /\ \A b \in (1..3) \ {a} : written(msgs, "debugk-" \o ToString(b)) = 0
    /\ written(msgs, "astiencoder: pattern repeated 2 times: debugk-%d") = 1
    /\ total(msgs, DOMAIN msgs) = 2


\* C21: a formatted call is forwarded exactly when its expanded message is not
\* being merged at its own level, whatever is being merged at other levels, and
\* a purge writes one summary for each level at which the message was repeated:
\* the same message at two levels is two patterns
C21_LevelsAreSeparatePatterns ==
    /\ [][(logged'.op = "call" /\ ~logged'.call.keyed) =>
            LET c == logged'.call
            IN IF <<c.level, Sprintf(c)>> \in DOMAIN merged
               THEN msgs' = msgs
               ELSE /\ written(msgs', Sprintf(c)) = written(msgs, Sprintf(c)) + 1
                    /\ \A q \in DOMAIN merged : merged'[q] = merged[q]]_vars
    /\ [][logged'.op \in {"tick", "close"} =>
            written(msgs', "astiencoder: pattern repeated once: msg")
                - written(msgs, "astiencoder: pattern repeated once: msg")
            = Cardinality({l \in {"error", "info"} :
                              /\ <<l, "msg">> \in DOMAIN merged \ DOMAIN merged'
                              /\ merged[<<l, "msg">>].count = 2})]_vars

\* C21 witness: Errorf("msg") twice and Infof("msg") twice in one window have
\* given the sink "msg" twice and the summary twice
C21_Witness ==
    /\ logged.op \in {"tick", "close"}
    /\ calls = 4
    /\ written(msgs, "msg") = 2
    /\ written(msgs, "astiencoder: pattern repeated once: msg") = 2
    /\ total(msgs, DOMAIN msgs) = 4

\* C22: Close purges every pattern being merged, whether a tick has seen it or
\* not: when it returns no pattern is left, each pattern seen at least twice
\* has had its one summary written, and nothing else was written
C22_CloseFlushesAll ==
    /\ [](closed => DOMAIN merged = {})
    /\ [][logged'.op = "close" =>
            /\ DOMAIN merged' = {}
            /\ \A line \in DOMAIN msgs' :
                written(msgs', line) - written(msgs, line)
                    = Cardinality({p \in DOMAIN merged :
                                      /\ merged[p].count >= 2
                                      /\ expectedSummary(p, merged[p].count) = line})]_vars

\* C22 witness: Close has written the summary of a pattern repeated after the
\* last time the background task woke, and no pattern is left
C22_Witness ==
    /\ logged.op = "close" /\ closed
    /\ logTicks = 0 /\ calls = 2
    /\ written(msgs, "astiencoder: pattern repeated once: errorf-1") = 1
    /\ DOMAIN merged = {}


\* C23: when ReadFrame fails, readFrame does not take the looping path and no
\* custom handler reports the error as handled, the read loop stops, and an
\* error event is emitted exactly when the error is not EOF
C23_DefaultHandling ==
    [][(/\ rf'.count = rf.count + 1
        /\ ~rf'.looping
        /\ ~rf'.handled) =>
            /\ rf'.stop /\ pc' = "wait"
            /\ (errorEvents' # errorEvents) <=> (rf'.err # "eof")
            /\ rf'.err # "eof" => errorEvents' = Append(errorEvents, "reading frame")]_vars

\* C23 witness: an EOF that nobody handled has stopped the read loop without any
\* error event, with a custom handler that was asked
C23_Witness ==
    /\ rf.count = 1 /\ rf.err = "eof" /\ ~rf.looping
    /\ rf.consulted /\ ~rf.handled
    /\ pc = "wait" /\ errorEvents = <<>>


\* C24 as stated: when the custom handler reports the error as handled, no error
\* event is emitted and the read loop goes on with the next ReadFrame
C24_HandledContinues ==
    [][(rf'.count = rf.count + 1 /\ rf'.handled) =>
            /\ errorEvents' = errorEvents
            /\ ~rf'.stop /\ pc' = "read"]_vars

\* C24: when the custom handler reports the error as handled, no error event is
\* emitted, and the read loop goes on with the next ReadFrame unless the handler
\* also reports stop, in which case the read loop stops
C24_HandledReturnsHandlerStop ==
    [][(rf'.count = rf.count + 1 /\ rf'.handled) =>
            /\ rf'.consulted /\ readFrameErrorHandler # "nil" /\ rf'.h.handled
            /\ errorEvents' = errorEvents
            /\ rf'.stop = rf'.h.stop
            /\ pc' = IF rf'.h.stop THEN "wait" ELSE "read"]_vars

\* C24 witness: the handler has reported an error other than EOF as handled
\* together with stop, and the read loop has stopped without an error event
C24_Witness ==
    /\ rf.count = 1 /\ rf.err = "other"
    /\ rf.handled /\ rf.h.stop
    /\ pc = "wait" /\ errorEvents = <<>>

\* C25: on EOF while the demuxer loops, readFrame calls looping once and seeks to
\* the start; when the seek succeeds the read loop goes on from the start of the
\* input, no error event is emitted, the custom handler is not asked and no rate
\* emulator gets eof; when the seek fails an error event is emitted and the read
\* loop stops
C25_LoopingPath ==
    [][(rf'.count = rf.count + 1 /\ rf'.err = "eof" /\ loop) =>
            /\ rf'.looping
            /\ loops' = loops + 1
            /\ lss' = looping(lss, pd)
            /\ IF rf'.seekOk
               THEN /\ ~rf'.stop /\ pc' = "read" /\ pos' = 1
                    /\ errorEvents' = errorEvents
                    /\ ~rf'.consulted
                    /\ ~rf'.eof /\ cfs' = cfs
               ELSE /\ errorEvents' = Append(errorEvents, "seeking to frame")
                    /\ rf'.stop /\ pc' = "wait"]_vars

\* C25 witness: a demuxer with rate emulation and a custom handler has looped at
\* the end of its input, and reads on
C25_Witness ==
    /\ rf.count = 1 /\ rf.err = "eof" /\ rf.looping /\ rf.seekOk
    /\ emulateRate /\ readFrameErrorHandler = "set"
    /\ loops = 1 /\ pos = 1 /\ pc = "read"
    /\ lss[0].restampDelta > 0


\* C26: the slot list is never empty, so its tail can be read by a task and by a
\* tick; it has one slot at first, a tick adds one slot while there are fewer
\* than slotsCount and leaves slotsCount slots from then on, slotsCount is at
\* least 1, and no other operation changes the number of slots
C26_SlotListLength ==
    /\ [](/\ slotsCount >= 1
          /\ Len(slots) >= 1 /\ Len(slots) <= slotsCount
          /\ ticks = 0 => Len(slots) = 1)
    /\ [][IF ticks' = ticks + 1
          THEN Len(slots') = IF Len(slots) < slotsCount THEN Len(slots) + 1 ELSE slotsCount
          ELSE Len(slots') = Len(slots)]_vars

\* C26 witness: with two slots to keep, the tick after the warmup has left two
\* slots
C26_Witness ==
    /\ slotsCount = 2 /\ Len(slots) = 2
    /\ WarmTick /\ ticks = 3 /\ warmTicks = 2

\* the node of the frame of the task of a step
TaskNode == CHOOSE x \in Nodes : sent'[x] = sent[x] + 1

\* the PTS of the frame of the task of a step
TaskPts == RescaleQ(sent[TaskNode], DescriptorTimeBaseDen(TaskNode), OutputTimeBaseDen)

\* C27: in a task, c1 and c2 do not hold together; when c2 holds no SwitchedIn is
\* emitted and the tail slot is replaced exactly when adaptSlotsToIncomingFrames
\* is set; SwitchedIn is emitted only when c1 holds
C27_BranchesExclusive ==
    [][last'.op = "task" =>
        LET l == slots[Len(slots)]
            c1 == TaskC1(l, n, TaskNode)
            c2 == TaskC2(l, TaskNode, TaskPts)
            tail == slots'[Len(slots')]
        IN /\ ~(c1 /\ c2)
           /\ c2 => /\ last'.evIn = Nil
                    /\ IF adaptSlotsToIncomingFrames
                       THEN last'.replaced /\ tail.ptsMin = TaskPts /\ tail.i.f = NoFrame
                       ELSE ~last'.replaced /\ slots' = slots
           /\ last'.evIn # Nil => c1
           /\ (~c1 /\ ~c2) => slots' = slots]_vars

\* C27 witness: a task has moved the tail slot to a later frame of the tail's
\* node without a SwitchedIn
C27_Witness ==
    /\ last.op = "task" /\ last.replaced /\ last.evIn = Nil
    /\ adaptSlotsToIncomingFrames
    /\ buf # <<>> /\ slots[Len(slots)].ptsMin = buf[Len(buf)].pts

\* C28: after a task that emitted SwitchedIn, the payload of the event is the
\* desired node, and the tail slot is tagged with that node and starts at the
\* PTS of the frame, which is the last of the buffer
C28_SwitchedInIsDesired ==
    (last.op = "task" /\ last.evIn # Nil) =>
        /\ last.evIn = n
        /\ last.replaced
        /\ slots[Len(slots)].n = last.evIn
        /\ slots[Len(slots)].ptsMin = buf[Len(buf)].pts

\* C29: what distribute does with each frame of the buffer as a slot without an
\* item finds it: a frame of another node is put and removed when its node tags
\* no slot and is left otherwise; of the frames of the slot's node, the first in
\* the range of the slot is assigned and removed without being put, the frames
\* before the range are put and removed, the frames after it are left
C29_ScanRules ==
    warmedUp(slots, slotsCount) =>
        LET ns == usefulNodes(slots)
        IN \A k \in DOMAIN slots :
              (~slots[k].nil /\ slots[k].i.f = NoFrame) =>
                 LET s == slots[k]
                     seen == distributeFrom(SubSeq(slots, 1, k - 1), buf, 1, ns, <<>>).buf
                     r == scanBuf(s, seen, 1, ns, <<>>)
                     kept == {r.buf[j].f : j \in DOMAIN r.buf}
                     put == PutFrames(r.puts)
                     items == ItemsInRange(s, seen)
                 IN \A j \in DOMAIN seen :
                       LET b == seen[j]
                       IN IF b.n # s.n
                          THEN IF b.n \in ns
                               THEN b.f \in kept /\ b.f \notin put
                               ELSE b.f \notin kept /\ b.f \in put
                          ELSE IF InRange(s, b.pts)
                          THEN b = Earliest(items) =>
                                  (r.s.i = b /\ b.f \notin kept /\ b.f \notin put)
                          ELSE IF b.pts < s.ptsMin
                          THEN b.f \notin kept /\ b.f \in put
                          ELSE b.f \in kept /\ b.f \notin put /\ r.s.i # b

\* C29 witness: a tick has dispatched a frame of its first slot after distribute
\* has put a frame older than a slot and a frame of a node that tags no slot
C29_Witness ==
    /\ WarmTick /\ ~last.filled
    /\ \E k \in DOMAIN last.puts : last.puts[k].why = "stale"
    /\ \E k \in DOMAIN last.puts : last.puts[k].why = "useless"


\* the function of a packet of the emulator of stream s ends in a step
TaskEnded(s) ==
    /\ est[s] \in {"running", "task"} /\ est'[s] = "running"
    /\ cfs[s] # <<>> /\ Head(cfs[s]).kind = "pkt"
    /\ cfs'[s] = Tail(cfs[s])

\* C30: no packet is dispatched twice; with rate emulation a packet is dispatched
\* only by its function, not before its release time and not with the context
\* of its emulator done; and the function of a packet, whether it dispatches the
\* packet or finds the context done, puts the packet back and takes it off ps
C30_DispatchedOnceNotEarly ==
    /\ [](\A s \in Streams : \A i, j \in DOMAIN delivered[s] :
              delivered[s][i] = delivered[s][j] => i = j)
    /\ [][\A s \in Streams :
            /\ (emulateRate /\ delivered'[s] # delivered[s]) =>
                  /\ TaskEnded(s)
                  /\ ~ectxDone(s)
                  /\ Head(cfs[s]).at <= now
                  /\ delivered'[s] = Append(delivered[s], Head(cfs[s]).k)
            /\ TaskEnded(s) =>
                  /\ ectxDone(s) => delivered'[s] = delivered[s]
                  /\ EPkt(s, Head(cfs[s]).k) \notin taken'
                  /\ EPkt(s, Head(cfs[s]).k) \notin eps'[s]
                  /\ taken' = taken \ {EPkt(s, Head(cfs[s]).k)}]_vars

\* C30 witness: the first two packets of stream 0 have been dispatched and the
\* function of the third, released later than the clock gets, has found the
\* context of its emulator done: the three packets are back in the pool, none is
\* left in ps, and the third was not dispatched
C30_Witness ==
    /\ emulateRate
    /\ pktsRead[0] = 3
    /\ delivered[0] = <<1, 2>>
    /\ lastAt[0] > now
    /\ taken = {} /\ eps[0] = {}
    /\ est[0] = "running" /\ ectxDone(0) /\ cfs[0] = <<>>

\* the packets of a stream that were read, in the order they were read
ReadOrder(s) == [k \in 1..pktsRead[s] |-> k]

\* C31: with rate emulation and no cancellation, an emulator stops only after
\* every packet scheduled on its stream has been dispatched, in the order read;
\* and the function Start gave to BaseNode.Start returns only after every
\* emulator goroutine is done
C31_EofDrains ==
    /\ (emulateRate /\ ~ctxDone) =>
            \A s \in Streams :
               (cancelled[s] \/ est[s] = "done") =>
                    /\ delivered[s] = ReadOrder(s)
                    /\ eps[s] = {}
    /\ pc = "done" => \A s \in Streams : est[s] = "done"

\* C31 witness: without cancellation, the second packet of stream 0 was scheduled
\* for later than the clock, the end of the input was read, both packets were
\* dispatched, the emulators stopped and Start's function has returned
C31_Witness ==
    /\ emulateRate /\ ~ctxDone
    /\ pc = "done"
    /\ pktsRead[0] = 2 /\ delivered[0] = <<1, 2>>
    /\ lastAt[0] > ClockPeriod
    /\ \A s \in Streams : est[s] = "done" /\ cancelled[s]

\* C32: the first packet handled after the demuxer was started again is
\* scheduled for a time that is not before the time of the call of handlePkt
C32_RestartSchedulesFromNow ==
    [][(handled.op = "restart" /\ handled'.op = "handlePkt") =>
            handled'.pktAt >= handled'.calledAt]_vars

\* C33: the tail slot never holds an item, so a task that replaces the tail slot
\* discards no frame
C33_TailItemFree ==
    slots[Len(slots)].nil \/ slots[Len(slots)].i.f = NoFrame

\* C33 witness: a task has replaced the tail slot while the slot before it holds
\* an item
C33_Witness ==
    /\ last.op = "task" /\ last.replaced
    /\ Len(slots) = 2
    /\ ~slots[1].nil /\ slots[1].i.f # NoFrame
    /\ ~slots[2].nil /\ slots[2].i.f = NoFrame

\* the slots that hold an item
Assigned == {k \in DOMAIN slots : ~slots[k].nil /\ slots[k].i.f # NoFrame}

\* C34: no frame is put twice; a frame is in the buffer once or in one slot,
\* never both, and is out of the pool while it is; an item stays in its slot,
\* moving one position a tick, until the tick that finds it in slot 0 dispatches
\* and puts it; and no operation puts a frame twice
C34_NoDoublePut ==
    /\ [](/\ ~doublePut
          /\ HeldFrames \subseteq live
          /\ \A i, j \in DOMAIN buf : buf[i].f = buf[j].f => i = j
          /\ \A k, j \in Assigned : slots[k].i.f = slots[j].i.f => k = j
          /\ \A k \in Assigned : \A j \in DOMAIN buf : buf[j].f # slots[k].i.f)
    /\ [][/\ \A i, j \in DOMAIN last'.puts :
                last'.puts[i].f = last'.puts[j].f => i = j
          /\ \A k \in Assigned :
                IF ticks' = ticks + 1 /\ last'.warm
                THEN IF k = 1
                     THEN /\ last'.disp = slots[1].i
                          /\ \E j \in DOMAIN last'.puts :
                                last'.puts[j] = Put(slots[1].i.f, "dispatched")
                          /\ slots[1].i.f \notin live'
                     ELSE /\ slots'[k - 1].i = slots[k].i
                          /\ slots[k].i.f \notin PutFrames(last'.puts)
                ELSE /\ slots'[k].i = slots[k].i
                     /\ slots[k].i.f \notin PutFrames(last'.puts)]_vars

\* C34 witness: with two slots, a tick has dispatched and put the item of its
\* first slot and has put a frame that distribute dropped, while the item of
\* the next slot waits for its tick
C34_Witness ==
    /\ slotsCount = 2
    /\ WarmTick /\ ~last.filled
    /\ Len(last.puts) >= 2
    /\ 1 \in Assigned

\* C35: an operation of the rate enforcer in which a Ref fails emits an error
\* event and takes no frame out of the pool for good: the frames out of the pool
\* after it were out of the pool before it
C35_FailedRefLeaksNothing ==
    [][(errors' # errors) => (errors' = errors + 1 /\ live' \subseteq live)]_vars

\* C36: with the "previous" filler, a tick that fills emits no SwitchedOut, and
\* the node the filler returns with its frame is the payload of the latest
\* SwitchedOut event
C36_FillKeepsNode ==
    filler = "previous" =>
        /\ (WarmTick /\ last.filled) =>
              /\ last.evOut = Nil
              /\ last.disp.f # NoFrame =>
                    /\ switchedOut # <<>>
                    /\ last.disp.n = switchedOut[Len(switchedOut)]
        /\ fillerF # NoFrame =>
              /\ switchedOut # <<>>
              /\ Fill(filler, fillerF, fillerPts, fillerN).n = switchedOut[Len(switchedOut)]
              /\ fillerN = previousNode

\* C36 witness: after the dispatch went from one node to another, a tick has
\* dispatched the frame of the filler without a SwitchedOut
C36_Witness ==
    /\ filler = "previous"
    /\ WarmTick /\ last.filled /\ last.disp.f # NoFrame
    /\ Len(switchedOut) = 2 /\ last.disp.n = switchedOut[2]
    /\ last.evOut = Nil

\* C37: while Switch has not been called the desired node is nil, every slot is
\* nil or tagged with the nil node and holds no item, no frame of a node was
\* dispatched, a tick that dispatches fills and dispatches the frame of the
\* filler if anything, and it leaves the buffer empty
C37_NoSwitchNoSourceFrame ==
    switches = 0 =>
        /\ n = Nil
        /\ \A k \in DOMAIN slots :
              slots[k].nil \/ (slots[k].n = Nil /\ slots[k].i.f = NoFrame)
        /\ nodeSourced = 0 /\ switchedOut = <<>>
        /\ WarmTick =>
              /\ last.filled
              /\ last.disp = (IF fillerF = NoFrame THEN NoItem
                              ELSE Fill(filler, fillerF, fillerPts, fillerN))
              /\ last.disp.f \notin HeldFrames
              /\ buf = <<>>
              /\ last.evOut = Nil

\* C37 witness: without any Switch, frames of both nodes were accepted and a tick
\* has dropped frames as useless and filled
C37_Witness ==
    /\ switches = 0
    /\ sent["X"] >= 1 /\ sent["Y"] >= 1
    /\ WarmTick /\ last.filled
    /\ Len(last.puts) >= 2
    /\ \A k \in DOMAIN last.puts : last.puts[k].why = "useless"

\* C38: in the tick of src/libav/rate_enforcer.go the slot list is not empty when
\* the deferred function reads its last element: no tick panics, and the slot
\* list is never empty
C38_LibavSlotListNonEmpty ==
    ~panicked /\ Len(slots) >= 1

\* the stream x after the first loop of the call of looping this step makes
Flushed(x) == loopingFlush(lss[x], pd[x], timeBaseDen[x])

\* maxDuration of the call of looping this step makes, in nanoseconds
MaxDurationNs == loopingMaxDuration([x \in Streams |-> Flushed(x)])

\* what the call of looping this step makes adds to the restampDelta of stream x,
\* and the part of it that is the gap to the longest stream
DeltaAdded(x) == lss'[x].restampDelta - lss[x].restampDelta
GapAdded(x) == DeltaAdded(x) - Flushed(x).duration

\* the step is a call of looping
LoopingStep == step'.op = "looping" /\ loops' = loops + 1

\* what C39 says of a call of looping besides the conservation of time: the
\* duration is 0 afterwards, restampDelta has not decreased and lastDuration is
\* the flushed duration plus the gap added
LoopingBookkeeping(x) ==
    /\ lss'[x].duration = 0
    /\ lss'[x].restampDelta >= lss[x].restampDelta
    /\ GapAdded(x) >= 0
    /\ lss'[x].lastDuration = Flushed(x).lastDuration + GapAdded(x)

\* C39 as stated: each call of looping conserves time for every stream: what it
\* adds to restampDelta, converted to nanoseconds, plus the new restampRemainder
\* is maxDuration plus the old restampRemainder; afterwards the duration is 0,
\* restampDelta has not decreased and lastDuration is the flushed duration plus
\* the gap added
C39_LoopingConservesTime ==
    [][LoopingStep =>
        \A x \in Streams :
            /\ RescaleQ(DeltaAdded(x), timeBaseDen[x], durationDen)
                    + lss'[x].restampRemainder
                = MaxDurationNs + lss[x].restampRemainder
            /\ LoopingBookkeeping(x)]_vars

\* C39 amended: each call of looping conserves time for every stream: the
\* duration of the stream and the gap it adds to restampDelta, each converted to
\* nanoseconds, plus the new restampRemainder are maxDuration plus the old
\* restampRemainder, which the conversion of their sum misses by at most one
\* nanosecond; afterwards the duration is 0, restampDelta has not decreased and
\* lastDuration is the flushed duration plus the gap added
C39_LoopingConservesTimePiecewise ==
    [][LoopingStep =>
        \A x \in Streams :
            /\ RescaleQ(Flushed(x).duration, timeBaseDen[x], durationDen)
                    + RescaleQ(GapAdded(x), timeBaseDen[x], durationDen)
                    + lss'[x].restampRemainder
                = MaxDurationNs + lss[x].restampRemainder
            /\ RescaleQ(DeltaAdded(x), timeBaseDen[x], durationDen)
                    + lss'[x].restampRemainder
                    - (MaxDurationNs + lss[x].restampRemainder) \in {-1, 0, 1}
            /\ LoopingBookkeeping(x)]_vars

\* C39 witness: looping has returned a second time with no reset in between, a
\* stream carried a gap into its lastDuration and keeps a remainder
C39_Witness ==
    /\ step.op = "looping" /\ loops = 2 /\ restarts = 0
    /\ \E x \in Streams :
            /\ lss[x].lastDuration > pdFlush(pd[x]).lastDuration
            /\ lss[x].restampRemainder > 0
            /\ lss[x].duration = 0

\* the packet objects the emulator of stream s has stored for a function of its
\* chan that has not put them back yet
InFlight(s) ==
    {cfs[s][i].k : i \in {j \in DOMAIN cfs[s] :
                            /\ cfs[s][j].kind = "pkt"
                            /\ ~(j = 1 /\ est[s] = "unstore")}}

\* C40: under every interleaving of the read loop with the chan of a rate
\* emulator, each packet the emulator has stored and not yet put back is in ps:
\* the clean-up of a function that has ended never deletes the entry of a later
\* use of the same packet object that is still in flight
C40_InFlightTracked ==
    \A s \in Streams : InFlight(s) \subseteq eps[s]

====
